---- MODULE Spec2Model ----
(***************************************************************************)
(* Compliance-RAG backend: the multi-session in-memory record store        *)
(* (backend/models.py), the vector index router (backend/rag.py), the      *)
(* upload pipeline (backend/ingestion.py) and the HTTP handlers with the   *)
(* background eviction sweep (backend/main.py).                            *)
(*                                                                         *)
(* Handlers are atomic between their suspension points: a synchronous      *)
(* handler is one action, the asynchronous /assess handler is split at     *)
(* every await (semaphore acquire, judgment call, gather). The thread-     *)
(* level specifications (SpecRace, SpecAdds) split a handler further, at   *)
(* its calls into the store.                                               *)
(***************************************************************************)
EXTENDS Integers, Sequences, FiniteSets, TLC

VARIABLES
    use_pinecone,   \* RAGEngine.use_pinecone: fixed at construction
    vector_store,   \* RAGEngine.vector_store: [is_none, vectors]
    sessions,       \* InMemoryStore.sessions: session id -> SessionData
    now,            \* datetime.utcnow(), in minutes
    asmt,           \* the last /assess request: handler locals and its tasks
    served,         \* requests served so far: [uploads, assessments]
    history,        \* conversation history: session id -> sequence of messages
    chat,           \* the last /chat (or /upload) request and its response
    call,           \* the last /upload response, or a call of a pure function
    threads,        \* the handlers running on the event-loop and worker threads
    storage         \* the files of STORAGE_DIR: file name -> the bytes written

vars == <<use_pinecone, vector_store, sessions, now, asmt, served, history, chat, call,
          threads, storage>>

-----------------------------------------------------------------------------
(* Bounds of the model *)

MaxUploads == 2      \* /upload requests served in a run
MaxClauses == 2      \* clauses the parser yields for one upload
MaxAssessments == 1  \* /assess requests served in a run
MaxResults == 2      \* results per session (result_counter cap)
MaxTime == 16        \* the clock stops here
SemClauses == 11     \* customer clauses of the fan-out specification

(* Program constants *)

TTL_MINUTES == 15    \* timedelta(minutes=15)
SEM_LIMIT == 10      \* asyncio.Semaphore(10)
TOP_K == 8           \* retrieve_similar_clauses(top_k=8)

SessionIds == {"s1", "s2"}
ClockSteps == {8}                    \* minutes that pass in one clock step
Labels == <<"1.1", "1.2", "1.3">>    \* clause labels the parser yields, in order
Filenames == {"spec.pdf"}
PERMANENT == "permanent"
None == 0                            \* ids start at 1, so 0 stands for None

Min(a, b) == IF a < b THEN a ELSE b
Put(f, k, v) == [x \in DOMAIN f \cup {k} |-> IF x = k THEN v ELSE f[x]]
Drop(f, K) == [x \in DOMAIN f \ K |-> f[x]]

-----------------------------------------------------------------------------
(* backend/models.py *)

SessionData(t) ==
    [documents |-> <<>>, clauses |-> <<>>, assessments |-> <<>>,
     assessment_results |-> <<>>,
     doc_counter |-> 0, clause_counter |-> 0, assessment_counter |-> 0,
     result_counter |-> 0, last_activity |-> t]

\* get_session that creates lazily and leaves last_activity alone
get_session_without_touch(ss, sid, t) ==
    IF sid \in DOMAIN ss THEN ss ELSE Put(ss, sid, SessionData(t))

\* get_session: create lazily, touch last_activity. Yields the sessions map.
get_session(ss, sid, t) ==
    IF sid \in DOMAIN ss
    THEN [ss EXCEPT ![sid].last_activity = t]
    ELSE Put(ss, sid, SessionData(t))

\* reset(session_id): drop the session if present
reset(ss, sid) == Drop(ss, {sid})

\* the id taken from the number of live documents instead of the counter
add_document_id_from_len(ss, sid, t, filename) ==
    LET s1 == get_session(ss, sid, t)
        id == Cardinality(DOMAIN s1[sid].documents) + 1
    IN [s1 EXCEPT ![sid].doc_counter = id,
                  ![sid].documents = Put(@, id, [filename |-> filename])]

add_document(ss, sid, t, filename) ==
    LET s1 == get_session(ss, sid, t)
        id == s1[sid].doc_counter + 1
    IN [s1 EXCEPT ![sid].doc_counter = id,
                  ![sid].documents = Put(@, id, [filename |-> filename])]

add_clause(ss, sid, t, document_id, clause_id) ==
    LET s1 == get_session(ss, sid, t)
        id == s1[sid].clause_counter + 1
    IN [s1 EXCEPT ![sid].clause_counter = id,
                  ![sid].clauses = Put(@, id, [document_id |-> document_id,
                                               clause_id |-> clause_id])]

\* the ids of a document's clauses (dict order is insertion order = id order)
get_clauses_by_document(ss, sid, doc_id) ==
    {c \in DOMAIN ss[sid].clauses : ss[sid].clauses[c].document_id = doc_id}

\* first clause, in id order, of that document with that label; None if absent
get_clause_by_doc_and_clause_id(ss, sid, doc_id, label) ==
    LET m == {c \in DOMAIN ss[sid].clauses :
                 /\ ss[sid].clauses[c].document_id = doc_id
                 /\ ss[sid].clauses[c].clause_id = label}
    IN IF m = {} THEN None ELSE CHOOSE c \in m : \A d \in m : c <= d

add_assessment(ss, sid, t, customer_doc_id, regulation_doc_id) ==
    LET s1 == get_session(ss, sid, t)
        id == s1[sid].assessment_counter + 1
    IN [s1 EXCEPT ![sid].assessment_counter = id,
                  ![sid].assessments =
                      Put(@, id, [customer_doc_id |-> customer_doc_id,
                                  regulation_doc_id |-> regulation_doc_id])]

get_assessments_by_doc(ss, sid, doc_id) ==
    {a \in DOMAIN ss[sid].assessments :
        \/ ss[sid].assessments[a].customer_doc_id = doc_id
        \/ ss[sid].assessments[a].regulation_doc_id = doc_id}

add_result(ss, sid, t, assessment_id, customer_clause_id, regulation_clause_id, v) ==
    LET s1 == get_session(ss, sid, t)
        id == s1[sid].result_counter + 1
    IN [s1 EXCEPT ![sid].result_counter = id,
                  ![sid].assessment_results =
                      Put(@, id, [assessment_id |-> assessment_id,
                                  customer_clause_id |-> customer_clause_id,
                                  regulation_clause_id |-> regulation_clause_id,
                                  status |-> v.status, risk |-> v.risk,
                                  confidence |-> v.confidence])]

get_results_by_assessment(ss, sid, assessment_id) ==
    {r \in DOMAIN ss[sid].assessment_results :
        ss[sid].assessment_results[r].assessment_id = assessment_id}

\* delete_assessment for every id in A: results first, then the assessment
delete_assessments(ss, sid, t, A) ==
    LET s1 == get_session(ss, sid, t)
        rs == {r \in DOMAIN s1[sid].assessment_results :
                  s1[sid].assessment_results[r].assessment_id \in A}
    IN [s1 EXCEPT ![sid].assessment_results = Drop(@, rs),
                  ![sid].assessments = Drop(@, A)]

\* InMemoryStore.delete_results_by_assessment
delete_results_by_assessment(ss, sid, t, assessment_id) ==
    LET s1 == get_session(ss, sid, t)
    IN [s1 EXCEPT ![sid].assessment_results =
           Drop(@, get_results_by_assessment(s1, sid, assessment_id))]

\* InMemoryStore.delete_document: the document and its clauses
store_delete_document(ss, sid, t, doc_id) ==
    LET s1 == get_session(ss, sid, t)
    IN IF doc_id \notin DOMAIN s1[sid].documents THEN s1
       ELSE [s1 EXCEPT ![sid].documents = Drop(@, {doc_id}),
                       ![sid].clauses =
                           Drop(@, get_clauses_by_document(s1, sid, doc_id))]

-----------------------------------------------------------------------------
(* backend/rag.py *)

get_session_namespace(sid) == "session_" \o sid

\* A stored vector: the metadata ingest_documents writes, and the namespace the
\* upsert was issued under. The FAISS wrapper has no namespaces: there `ns` is
\* only the namespace the caller named, no query can read it.
Vector(ns, doc_id, clause_id, doc_name) ==
    [ns |-> ns, doc_id |-> doc_id, clause_id |-> clause_id, doc_name |-> doc_name]

NsVectors(vs, ns) == {v \in vs.vectors : v.ns = ns}

\* ingest_documents, when the engine accepts the upsert
ingest_documents(vs, pinecone, recs, ns) ==
    IF recs = {} THEN vs
    ELSE [is_none |-> FALSE,
          vectors |-> vs.vectors \cup
             {Vector(ns, r.doc_id, r.clause_id, r.doc_name) : r \in recs}]

\* clear_index: Pinecone deletes the namespace, or logs the error and returns
\* (delete_ok = FALSE); FAISS mode drops the whole store object.
clear_index(vs, pinecone, ns, delete_ok) ==
    IF pinecone
    THEN IF delete_ok
         THEN [vs EXCEPT !.vectors = {v \in @ : v.ns # ns}]
         ELSE vs
    ELSE [is_none |-> TRUE, vectors |-> {}]

\* retrieve_similar_clauses(query, top_k, use_kb, session_id, doc_id) as called
\* by /assess (doc_id given): the possible outcomes, as the first hit of the
\* returned list: [kind |-> "raise"], [kind |-> "none"] or [kind |-> "hit", v]
Hit(v) == [kind |-> "hit", v |-> v]
NoHit == [kind |-> "none"]
Raised == [kind |-> "raise"]

\* similarity_search_with_score(k) over the vectors S, then the filter that
\* keeps the vectors M of S: the head of the filtered list. The ranking is the
\* engine's, so any vector of M can be the head, and the list is empty when
\* some k best of S hold no vector of M.
first_of_top_k(S, k, M) ==
    {Hit(v) : v \in M} \cup
    (IF Cardinality(S \ M) >= Min(k, Cardinality(S)) THEN {NoHit} ELSE {})

\* Pinecone mode: the session search and, with use_kb, the permanent search,
\* each [] on an engine error; combined = doc_results + kb_results filtered on
\* doc_id
pinecone_first_hits(vs, top_k, use_kb, sid, doc_id) ==
    LET S == NsVectors(vs, get_session_namespace(sid))
        P == NsVectors(vs, PERMANENT)
        doc_first == {NoHit} \cup
            first_of_top_k(S, top_k, {v \in S : v.doc_id = doc_id})
        kb_first == IF use_kb
                    THEN {NoHit} \cup
                         first_of_top_k(P, 2 * top_k, {v \in P : v.doc_id = doc_id})
                    ELSE {NoHit}
    IN {d \in doc_first : d.kind = "hit"} \cup
       (IF NoHit \in doc_first THEN kb_first ELSE {})

\* FAISS mode: one store for every caller, no filter, no except around the
\* search: all_res[:top_k]
faiss_first_hits(vs, top_k) ==
    {Raised} \cup first_of_top_k(vs.vectors, top_k, vs.vectors)

retrieve_similar_clauses(vs, pinecone, top_k, use_kb, sid, doc_id) ==
    IF vs.is_none THEN {NoHit}
    ELSE IF pinecone THEN pinecone_first_hits(vs, top_k, use_kb, sid, doc_id)
    ELSE faiss_first_hits(vs, top_k)

\* str.lower() and str.replace(" ", "_"), one character at a time
Upper == "ABCDEFGHIJKLMNOPQRSTUVWXYZ"
Lower == "abcdefghijklmnopqrstuvwxyz"

lower_char(c) ==
    IF \E i \in 1..Len(Upper) : SubSeq(Upper, i, i) = c
    THEN LET i == CHOOSE j \in 1..Len(Upper) : SubSeq(Upper, j, j) = c
         IN SubSeq(Lower, i, i)
    ELSE c

RECURSIVE lower(_)
lower(s) == IF Len(s) = 0 THEN s ELSE lower_char(SubSeq(s, 1, 1)) \o lower(Tail(s))

RECURSIVE replace_space(_)
replace_space(s) ==
    IF Len(s) = 0 THEN s
    ELSE (IF SubSeq(s, 1, 1) = " " THEN "_" ELSE SubSeq(s, 1, 1)) \o replace_space(Tail(s))

\* sub in s
Contains(s, sub) ==
    \E i \in 1..(Len(s) - Len(sub) + 1) : SubSeq(s, i, i + Len(sub) - 1) = sub

\* s.endswith(suffix)
endswith(s, suffix) ==
    /\ Len(s) >= Len(suffix)
    /\ SubSeq(s, Len(s) - Len(suffix) + 1, Len(s)) = suffix

\* the keys a JSON reply of the judgment call may carry, as the model writes
\* them: for each verdict field the key of the prompt and its accepted aliases
ReplyKeys ==
    [status        |-> <<"status", "Compliance Status">>,
     risk          |-> <<"Risk", "risk_level">>,
     reasoning     |-> <<"reasoning", "Description">>,
     evidence_text |-> <<"evidence_text", "Literal Evidence">>,
     confidence    |-> <<"confidence", "Confidence Score">>]

ReplyValues ==
    [status |-> "COMPLIANT", risk |-> "LOW", reasoning |-> "because",
     evidence_text |-> "quote", confidence |-> 90]

RawKeys ==
    UNION {{ReplyKeys[f][i] : i \in 1..Len(ReplyKeys[f])} : f \in DOMAIN ReplyKeys}
        \cup {"Status", "evidence", "note"}

\* key = str(k).lower().replace(" ", "_")
normalize_key == [k \in RawKeys |-> replace_space(lower(k))]

\* the loop over data.items(): a later item overwrites an earlier one
normalized(data) ==
    LET keys == {normalize_key[data[i][1]] : i \in 1..Len(data)}
        last(k) == CHOOSE i \in 1..Len(data) :
                      /\ normalize_key[data[i][1]] = k
                      /\ \A j \in (i + 1)..Len(data) : normalize_key[data[j][1]] # k
    IN [k \in keys |-> data[last(k)][2]]

\* dict.get(key, default)
Get(d, key, default) == IF key \in DOMAIN d THEN d[key] ELSE default

\* a complete JSON reply with the keys of the prompt
JsonReply(data) == [kind |-> "json", data |-> data]

CompleteData ==
    << <<"status", "COMPLIANT">>, <<"Risk", "LOW">>, <<"reasoning", "because">>,
       <<"evidence_text", "quote">>, <<"confidence", 90>> >>

\* what the judgment call can answer: an exception, text that is no JSON
\* object, a JSON object
Replies ==
    { [kind |-> "raise"],
      [kind |-> "text"],
      JsonReply(CompleteData) }

DefaultVerdict == [status |-> "UNKNOWN", risk |-> "HIGH", confidence |-> 0]

\* the verdict read from the normalized keys, field by field
final(n) ==
    [status |-> Get(n, "status", Get(n, "compliance_status", "UNKNOWN")),
     risk |-> Get(n, "risk", Get(n, "risk_level", "HIGH")),
     confidence |-> Get(n, "confidence", Get(n, "confidence_score", 0))]

\* the except branch of the JSON parse answering another risk than HIGH
analyze_compliance_parse_medium(reply) ==
    IF reply.kind = "json"
    THEN final(normalized(reply.data))
    ELSE IF reply.kind = "raise" THEN DefaultVerdict
    ELSE [DefaultVerdict EXCEPT !.risk = "MEDIUM"]

\* analyze_compliance: both except branches return the default verdict
analyze_compliance(reply) ==
    IF reply.kind = "json"
    THEN final(normalized(reply.data))
    ELSE DefaultVerdict

-----------------------------------------------------------------------------
(* backend/ingestion.py *)

\* the clause labels the parser yields for an upload of n clauses
RawClauses(n) == SubSeq(Labels, 1, n)

RECURSIVE add_clauses(_, _, _, _, _)
add_clauses(ss, sid, t, doc_id, raw) ==
    IF raw = <<>> THEN ss
    ELSE add_clauses(add_clause(ss, sid, t, doc_id, Head(raw)),
                     sid, t, doc_id, Tail(raw))

\* parse_document up to the ingest call: the document and one clause per raw
\* clause go to the record store
parse_document_store(ss, sid, t, filename, raw) ==
    LET s1 == add_document(ss, sid, t, filename)
    IN add_clauses(s1, sid, t, s1[sid].doc_counter, raw)

\* the records sent for embedding (every clause here is at most 2500 characters)
ingest_clauses(doc_id, filename, raw) ==
    {[doc_id |-> doc_id, clause_id |-> raw[i], doc_name |-> filename] :
        i \in DOMAIN raw}

-----------------------------------------------------------------------------
(* backend/main.py *)

\* The conversation history of a session. InMemoryStore has no get_history
\* and no add_history_message although /chat calls them: they are taken from
\* the specification: an ordered list of {role, content} per session. Only
\* /chat reads and writes it here.
get_history(h, sid) == IF sid \in DOMAIN h THEN h[sid] ELSE <<>>

add_history_message(h, sid, role, content) ==
    Put(h, sid, Append(get_history(h, sid), [role |-> role, content |-> content]))

\* no /chat request and no pure call yet
NoChat == [path |-> "idle", turn |-> 0]
NoCall == [fn |-> "none"]

\* no handler is split into the steps of its thread
NoThreads == <<>>

\* STORAGE_DIR is empty
NoFiles == <<>>

\* the bytes of an upload, named by the request that sent them
Bytes(sid, filename) == [sid |-> sid, filename |-> filename]

\* open(os.path.join(STORAGE_DIR, f"{doc_id}_{file.filename}"), "wb").write(content)
write_file(st, doc_id, sid, filename) ==
    Put(st, ToString(doc_id) \o "_" \o filename, Bytes(sid, filename))

\* STORAGE_DIR after session s1 uploaded a customer document and a regulation
PairFiles ==
    write_file(write_file(NoFiles, 1, "s1", "customer.pdf"), 2, "s1", "regulation.pdf")

Idle == [status |-> "idle", sid |-> "", id |-> None, customer_doc_id |-> None,
         regulation_doc_id |-> None, use_kb |-> FALSE, tasks |-> <<>>,
         results_count |-> 0]

Counter(ss, sid, c) == IF sid \in DOMAIN ss THEN ss[sid][c] ELSE 0

ALLOWED_EXTENSIONS == {".pdf", ".docx", ".xlsx"}

\* file names with and without a supported extension
UploadNames ==
    {"spec.pdf", "Spec.PDF", "plan.docx", "rows.xlsx", "notes.txt", "spec.pdf.txt",
     "pdf", "x.xlsx.zip"}

\* filename_lower = file.filename.lower(), for the names uploaded
filename_lower == [f \in Filenames \cup UploadNames |-> lower(f)]

\* the extension test as a substring test
allowed_extension_anywhere(filename) ==
    \E ext \in ALLOWED_EXTENSIONS : Contains(filename_lower[filename], ext)

\* any(filename_lower.endswith(ext) for ext in ALLOWED_EXTENSIONS)
allowed_extension(filename) ==
    \E ext \in ALLOWED_EXTENSIONS : endswith(filename_lower[filename], ext)

\* parse_document: the parser the file is handed to, by its lowered name;
\* "ValueError" is the else branch
parser_for(filename) ==
    IF endswith(filename_lower[filename], ".pdf") THEN "parse_pdf"
    ELSE IF endswith(filename_lower[filename], ".docx") THEN "parse_docx"
    ELSE IF endswith(filename_lower[filename], ".xlsx") THEN "parse_xlsx"
    ELSE "ValueError"

\* parse_xlsx reads XLSX_AVAILABLE, a name ingestion.py never binds: the call
\* raises NameError before any row is read. parse_pdf and parse_docx (with
\* python-docx installed) yield the clauses of the file.
parser_raises(parser) == parser \in {"parse_xlsx", "ValueError"}

\* the response of POST /upload: "ok", "unsupported" (HTTP 400 of the
\* extension check) or "error" (an exception out of parse_document)
UploadResponse(filename, response, parser) ==
    [fn |-> "upload_file", filename |-> filename, response |-> response,
     parser |-> parser]

\* POST /upload: namespace is the optional override ("" for none); n is the
\* number of clauses the parser finds; the engine accepts the upsert; the file
\* is saved under its document id
upload_file(sid, filename, n, namespace) ==
    LET raw == RawClauses(n)
        s1 == parse_document_store(sessions, sid, now, filename, raw)
        doc_id == s1[sid].doc_counter
        ns == IF namespace = "" THEN get_session_namespace(sid) ELSE namespace
        recs == ingest_clauses(doc_id, filename, raw)
        parser == parser_for(filename)
    IN /\ served.uploads < MaxUploads
       /\ served' = [served EXCEPT !.uploads = @ + 1]
       /\ IF ~allowed_extension(filename)
          THEN /\ call' = UploadResponse(filename, "unsupported", "")
               /\ UNCHANGED <<sessions, vector_store, storage>>
          ELSE IF parser_raises(parser)
          THEN /\ call' = UploadResponse(filename, "error", parser)
               /\ UNCHANGED <<sessions, vector_store, storage>>
          ELSE /\ call' = UploadResponse(filename, "ok", parser)
               /\ sessions' = s1
               /\ vector_store' = ingest_documents(vector_store, use_pinecone, recs, ns)
               /\ storage' = write_file(storage, doc_id, sid, filename)
       /\ UNCHANGED <<use_pinecone, now, asmt, history, chat, threads>>

\* the handler without its loop over get_assessments_by_doc
delete_document_only(ss, sid, t, doc_id) ==
    store_delete_document(get_session(ss, sid, t), sid, t, doc_id)

\* the cascade of DELETE /documents/{doc_id}, after the document was found
delete_document_cascade(ss, sid, t, doc_id) ==
    LET s1 == get_session(ss, sid, t)
        s2 == delete_assessments(s1, sid, t, get_assessments_by_doc(s1, sid, doc_id))
    IN store_delete_document(s2, sid, t, doc_id)

\* DELETE /documents/{doc_id}
delete_document(sid, doc_id) ==
    LET s1 == get_session(sessions, sid, now)
    IN /\ IF doc_id \notin DOMAIN s1[sid].documents
          THEN /\ sessions' = s1
          ELSE /\ sessions' = delete_document_cascade(sessions, sid, now, doc_id)
       /\ UNCHANGED <<use_pinecone, vector_store, now, asmt, served, history, chat, call, threads, storage>>

\* POST /reset: store.reset, then rag_engine.clear_index
reset_data(sid, delete_ok) ==
    /\ sessions' = reset(sessions, sid)
    /\ vector_store' = clear_index(vector_store, use_pinecone,
                                   get_session_namespace(sid), delete_ok)
    /\ UNCHANGED <<use_pinecone, now, asmt, served, history, chat, call, threads, storage>>

\* the sessions a sweep tick purges
sessions_to_purge(ss, t) ==
    {sid \in DOMAIN ss : t - ss[sid].last_activity > TTL_MINUTES}

RECURSIVE purge_vectors(_, _, _, _)
purge_vectors(vs, pinecone, S, okS) ==
    IF S = {} THEN vs
    ELSE LET sid == CHOOSE x \in S : TRUE
         IN purge_vectors(clear_index(vs, pinecone, get_session_namespace(sid),
                                      sid \in okS),
                          pinecone, S \ {sid}, okS)

\* one tick of session_cleanup_task: for every idle session clear_index, then
\* store.reset; okS are the sessions whose namespace delete succeeds
session_cleanup_task(okS) ==
    LET P == sessions_to_purge(sessions, now)
    IN /\ okS \subseteq P
       /\ vector_store' = purge_vectors(vector_store, use_pinecone, P, okS)
       /\ sessions' = Drop(sessions, P)
       /\ UNCHANGED <<use_pinecone, now, asmt, served, history, chat, call, threads, storage>>

\* time passes
Tick(d) ==
    /\ now + d <= MaxTime
    /\ now' = now + d
    /\ UNCHANGED <<use_pinecone, vector_store, sessions, asmt, served, history, chat, call, threads, storage>>

-----------------------------------------------------------------------------
(* backend/main.py: POST /assess *)

\* a set of ids as the list the store returns (dict order = id order)
RECURSIVE SortedSeq(_)
SortedSeq(S) ==
    IF S = {} THEN <<>>
    ELSE LET m == CHOOSE x \in S : \A y \in S : x <= y
         IN <<m>> \o SortedSeq(S \ {m})

\* one process_clause coroutine: pc is "queued" (waiting for the semaphore),
\* "judging" (holds the semaphore, awaits analyze_compliance), "done" (returned
\* result, None for skipped) or "raised" (left by an exception)
Task(c) == [clause |-> c, pc |-> "queued", reg_clause |-> None, result |-> None]

Judging(tasks) == {i \in DOMAIN tasks : tasks[i].pc = "judging"}
Finished(tasks) == \A i \in DOMAIN tasks : tasks[i].pc \in {"done", "raised"}

\* gather without the semaphore
semaphore_absent(tasks) == TRUE

\* a semaphore whose permits are never given back
semaphore_not_released(tasks) ==
    Cardinality({i \in DOMAIN tasks : tasks[i].pc # "queued"}) < SEM_LIMIT

\* asyncio.Semaphore(10): a permit is free
semaphore_free(tasks) == Cardinality(Judging(tasks)) < SEM_LIMIT

\* no /assess request is being served and no task of an earlier one is left
SlotFree ==
    \/ asmt.status \in {"idle", "returned", "rejected"}
    \/ asmt.status = "aborted" /\ Finished(asmt.tasks)

\* add_assessment placed before the empty-input check
assess_empty_input_after_add(ss, sid, t, customer_doc_id, regulation_doc_id) ==
    add_assessment(ss, sid, t, customer_doc_id, regulation_doc_id)

\* the record store when /assess answers 400 "No clauses found": only
\* get_clauses_by_document has touched it
assess_empty_input(ss, sid, t, customer_doc_id, regulation_doc_id) ==
    get_session(ss, sid, t)

\* the handler up to gather: the empty-input check, add_assessment, one task
\* per customer clause
assess_compliance(sid, customer_doc_id, regulation_doc_id, use_kb) ==
    LET s1 == get_session(sessions, sid, now)
        customer_clauses == SortedSeq(get_clauses_by_document(s1, sid, customer_doc_id))
        s2 == add_assessment(s1, sid, now, customer_doc_id, regulation_doc_id)
        req == [Idle EXCEPT !.sid = sid, !.customer_doc_id = customer_doc_id,
                            !.regulation_doc_id = regulation_doc_id,
                            !.use_kb = use_kb]
    IN /\ SlotFree
       /\ served.assessments < MaxAssessments
       /\ served' = [served EXCEPT !.assessments = @ + 1]
       /\ IF customer_clauses = <<>>
          THEN /\ sessions' = assess_empty_input(sessions, sid, now,
                                     customer_doc_id, regulation_doc_id)
               /\ asmt' = [req EXCEPT !.status = "rejected"]
          ELSE /\ sessions' = s2
               /\ asmt' = [req EXCEPT
                      !.status = "running",
                      !.id = s2[sid].assessment_counter,
                      !.tasks = [i \in DOMAIN customer_clauses |->
                                    Task(customer_clauses[i])]]
       /\ UNCHANGED <<use_pinecone, vector_store, now, history, chat, call, threads, storage>>
\* the outcomes retrieval may have for the task's clause
Retrievals ==
    retrieve_similar_clauses(vector_store, use_pinecone, TOP_K, asmt.use_kb,
                             asmt.sid, asmt.regulation_doc_id)

\* process_clause from the semaphore to the judgment call: the tasks enter in
\* list order; o is what retrieval gives. An exception leaves the task and
\* reaches the handler through gather.
process_clause_start(i, o) ==
    LET s1 == get_session(sessions, asmt.sid, now)
        reg == IF o.kind = "hit"
               THEN get_clause_by_doc_and_clause_id(s1, asmt.sid,
                        asmt.regulation_doc_id, o.v.clause_id)
               ELSE None
    IN /\ asmt.status \in {"running", "aborted"}
       /\ i \in DOMAIN asmt.tasks
       /\ asmt.tasks[i].pc = "queued"
       /\ \A j \in 1..(i - 1) : asmt.tasks[j].pc # "queued"
       /\ semaphore_free(asmt.tasks)
       /\ o \in Retrievals
       /\ CASE o.kind = "raise" ->
                 /\ asmt' = [asmt EXCEPT !.status = "aborted",
                                         !.tasks[i].pc = "raised"]
                 /\ sessions' = sessions
            [] o.kind = "none" ->
                 /\ asmt' = [asmt EXCEPT !.tasks[i].pc = "done"]
                 /\ sessions' = sessions
            [] o.kind = "hit" ->
                 /\ asmt' = [asmt EXCEPT
                        !.tasks[i].reg_clause = reg,
                        !.tasks[i].pc = IF reg = None THEN "done" ELSE "judging"]
                 /\ sessions' = s1
       /\ UNCHANGED <<use_pinecone, vector_store, now, served, history, chat, call, threads, storage>>

\* process_clause after the judgment call answered: add_result, release
process_clause_finish(i, reply) ==
    LET t == asmt.tasks[i]
        s1 == add_result(sessions, asmt.sid, now, asmt.id, t.clause,
                         t.reg_clause, analyze_compliance(reply))
    IN /\ asmt.status \in {"running", "aborted"}
       /\ i \in DOMAIN asmt.tasks
       /\ t.pc = "judging"
       /\ Counter(sessions, asmt.sid, "result_counter") < MaxResults
       /\ sessions' = s1
       /\ asmt' = [asmt EXCEPT !.tasks[i].pc = "done",
                               !.tasks[i].result = s1[asmt.sid].result_counter]
       /\ UNCHANGED <<use_pinecone, vector_store, now, served, history, chat, call, threads, storage>>

\* len([r for r in results_raw if r is not None])
results_count(tasks) == Cardinality({i \in DOMAIN tasks : tasks[i].result # None})

\* gather returned every task's result: the handler answers
assess_return ==
    /\ asmt.status = "running"
    /\ \A i \in DOMAIN asmt.tasks : asmt.tasks[i].pc = "done"
    /\ asmt' = [asmt EXCEPT !.status = "returned",
                            !.results_count = results_count(asmt.tasks)]
    /\ UNCHANGED <<use_pinecone, vector_store, sessions, now, served, history, chat, call, threads, storage>>

-----------------------------------------------------------------------------
(* The system *)

Init ==
    /\ use_pinecone \in BOOLEAN
    /\ vector_store = [is_none |-> ~use_pinecone, vectors |-> {}]
    /\ sessions = <<>>
    /\ now = 0
    /\ asmt = Idle
    /\ served = [uploads |-> 0, assessments |-> 0]
    /\ history = <<>>
    /\ chat = NoChat
    /\ storage = NoFiles
    /\ threads = NoThreads
    /\ call = NoCall

\* requests and steps of the /assess fan-out
AssessNext ==
    \/ \E sid \in SessionIds, c \in 1..MaxUploads, r \in 1..MaxUploads, kb \in BOOLEAN :
          assess_compliance(sid, c, r, kb)
    \/ \E i \in 1..MaxClauses, o \in Retrievals : process_clause_start(i, o)
    \/ \E i \in 1..MaxClauses, reply \in Replies : process_clause_finish(i, reply)
    \/ assess_return

\* requests that change a session's records and vectors
StoreNext ==
    \/ \E sid \in SessionIds, f \in Filenames, n \in 0..MaxClauses,
          ns \in {"", PERMANENT} : upload_file(sid, f, n, ns)
    \/ \E sid \in SessionIds, d \in 1..MaxUploads : delete_document(sid, d)
    \/ \E sid \in SessionIds, ok \in BOOLEAN : reset_data(sid, ok)

\* the clock and the background sweep
TimeNext ==
    \/ \E okS \in SUBSET SessionIds : session_cleanup_task(okS)
    \/ \E d \in ClockSteps : Tick(d)

Next == StoreNext \/ AssessNext \/ TimeNext

\* The fan-out of one assessment over more clauses than the semaphore has
\* permits: session s1 after the upload of a customer document of SemClauses
\* clauses (document 1) and of a regulation of one clause (document 2).
SemLabels == [i \in 1..SemClauses |-> "C." \o ToString(i)]

SemSessions ==
    parse_document_store(
        parse_document_store(<<>>, "s1", 0, "customer.pdf", SemLabels),
        "s1", 0, "regulation.pdf", RawClauses(1))

SemVectors(pinecone) ==
    ingest_documents(
        ingest_documents([is_none |-> ~pinecone, vectors |-> {}], pinecone,
                         ingest_clauses(1, "customer.pdf", SemLabels),
                         get_session_namespace("s1")),
        pinecone, ingest_clauses(2, "regulation.pdf", RawClauses(1)),
        get_session_namespace("s1"))

InitSem ==
    /\ use_pinecone \in BOOLEAN
    /\ vector_store = SemVectors(use_pinecone)
    /\ sessions = SemSessions
    /\ now = 0
    /\ asmt = Idle
    /\ served = [uploads |-> MaxUploads, assessments |-> 0]
    /\ history = <<>>
    /\ chat = NoChat
    /\ storage = PairFiles
    /\ threads = NoThreads
    /\ call = NoCall

\* retrieval finds a regulation clause for the task: it goes on to the judgment
Matched(o) ==
    /\ o.kind = "hit"
    /\ asmt.sid \in DOMAIN sessions
    /\ get_clause_by_doc_and_clause_id(sessions, asmt.sid, asmt.regulation_doc_id,
                                       o.v.clause_id) # None

SemNext ==
    \/ \E c \in 1..2, kb \in BOOLEAN : assess_compliance("s1", c, 2, kb)
    \/ \E i \in 1..SemClauses, o \in Retrievals : Matched(o) /\ process_clause_start(i, o)
    \/ \E i \in 1..SemClauses, reply \in Replies : process_clause_finish(i, reply)
    \/ assess_return

\* every handler and the sweep
SpecAll == Init /\ [][Next]_vars

\* the request handlers, with the clock standing still
Spec == Init /\ [][StoreNext \/ AssessNext]_vars

\* the record store and the vector index under the TTL sweep
SpecTTL == Init /\ [][TimeNext \/ StoreNext]_vars

\* one assessment of a document with every clause matched
SpecSem == InitSem /\ [][SemNext]_vars

-----------------------------------------------------------------------------
(* Claims *)

\* the session is in neither store
AbsentBoth(ss, vs, sid) ==
    /\ sid \notin DOMAIN ss
    /\ NsVectors(vs, get_session_namespace(sid)) = {}

\* C1: a session that is gone from the record store (only the sweep's purge and
\* Reset remove one) has no vector left in its namespace: no state has a
\* session removed from one store and still present in the other.
C1_PurgedFromBothStores ==
    \A sid \in SessionIds :
        sid \notin DOMAIN sessions => AbsentBoth(sessions, vector_store, sid)

\* C2: a sweep tick leaves every session idle for more than 15 minutes absent
\* from both stores, and leaves every other session with its records and its
\* vectors as they were.
C2_TTLEviction ==
    [][\A okS \in SUBSET SessionIds : session_cleanup_task(okS) =>
          \A sid \in DOMAIN sessions :
             IF now - sessions[sid].last_activity > TTL_MINUTES
             THEN AbsentBoth(sessions', vector_store', sid)
             ELSE /\ sid \in DOMAIN sessions'
                  /\ sessions'[sid] = sessions[sid]
                  /\ NsVectors(vector_store', get_session_namespace(sid))
                        = NsVectors(vector_store, get_session_namespace(sid))]_vars

\* C3: after DELETE /documents/{d} of a document of the session, the session
\* has no clause of d, no assessment that names d as customer or regulation
\* document, and no result of an assessment that named d.
C3_DeleteCascades ==
    [][\A sid \in SessionIds, d \in 1..MaxUploads :
          ( /\ sid \in DOMAIN sessions
            /\ d \in DOMAIN sessions[sid].documents
            /\ delete_document(sid, d) ) =>
          /\ d \notin DOMAIN sessions'[sid].documents
          /\ get_clauses_by_document(sessions', sid, d) = {}
          /\ get_assessments_by_doc(sessions', sid, d) = {}
          /\ \A a \in get_assessments_by_doc(sessions, sid, d) :
                get_results_by_assessment(sessions', sid, a) = {}]_vars

\* a delete cascaded: an assessment and a result were issued, none is left
C3_Witness ==
    \E sid \in DOMAIN sessions :
        /\ \E d \in 1..sessions[sid].doc_counter : d \notin DOMAIN sessions[sid].documents
        /\ sessions[sid].assessment_counter >= 1
        /\ DOMAIN sessions[sid].assessments = {}
        /\ sessions[sid].result_counter >= 1
        /\ DOMAIN sessions[sid].assessment_results = {}
        /\ asmt.status = "returned"

\* C4: while an assessment of session B with the knowledge base off retrieves,
\* no vector that retrieval can return was ingested under the namespace of
\* another session A.
C4_NamespaceIsolation ==
    ( /\ asmt.status \in {"running", "aborted"}
      /\ \E i \in DOMAIN asmt.tasks : asmt.tasks[i].pc = "queued"
      /\ ~asmt.use_kb ) =>
    \A o \in Retrievals, A \in SessionIds \ {asmt.sid} :
        o.kind = "hit" => o.v.ns # get_session_namespace(A)

\* C5 (its frame half): Reset of one session leaves the vectors of every other
\* session's namespace and of the permanent namespace as they were.
C5_ClearLeavesOthers ==
    [][\A sid \in SessionIds, ok \in BOOLEAN : reset_data(sid, ok) =>
          \A ns \in {get_session_namespace(x) : x \in SessionIds \ {sid}}
                    \cup {PERMANENT} :
             NsVectors(vector_store', ns) = NsVectors(vector_store, ns)]_vars

\* C6: at most 10 judgment calls are in flight at any instant of an assessment
C6_AtMostTenInFlight == Cardinality(Judging(asmt.tasks)) <= SEM_LIMIT

\* the semaphore is full, a call has returned and the last clause, which had
\* to wait for a permit, is now in flight
C6_Witness ==
    /\ Len(asmt.tasks) > SEM_LIMIT
    /\ Cardinality(Judging(asmt.tasks)) = SEM_LIMIT
    /\ asmt.tasks[Len(asmt.tasks)].pc = "judging"
    /\ \E i \in DOMAIN asmt.tasks : asmt.tasks[i].result # None

\* C7: no failure of one clause's processing keeps the assessment from
\* returning {assessmentId, resultsCount}: the request is never aborted.
C7_NeverAborts == asmt.status # "aborted"

\* the results stored in the request's session for its assessment id
StoredResults ==
    IF asmt.sid \in DOMAIN sessions
    THEN get_results_by_assessment(sessions, asmt.sid, asmt.id)
    ELSE {}

\* C8: when the assessment returns (every task is done, the handler counts),
\* resultsCount is the number of results stored for the assessment id, one for
\* each judged clause, and at most the number of customer clauses.
C8_CountMatchesStore ==
    ( /\ asmt.status = "running"
      /\ \A i \in DOMAIN asmt.tasks : asmt.tasks[i].pc = "done" ) =>
    /\ results_count(asmt.tasks) = Cardinality(StoredResults)
    /\ results_count(asmt.tasks) <= Len(asmt.tasks)
    /\ \A i \in DOMAIN asmt.tasks :
          asmt.tasks[i].reg_clause # None =>
             Cardinality({r \in StoredResults :
                 sessions[asmt.sid].assessment_results[r].customer_clause_id
                    = asmt.tasks[i].clause}) = 1

\* what /assess may change of a session: absent session = empty session
AssessView(ss, sid) ==
    IF sid \in DOMAIN ss
    THEN [assessments |-> ss[sid].assessments,
          results |-> ss[sid].assessment_results,
          assessment_counter |-> ss[sid].assessment_counter]
    ELSE [assessments |-> <<>>, results |-> <<>>, assessment_counter |-> 0]

\* C9: /assess on a customer document without clauses (an unknown id too) is
\* rejected and leaves the session's assessments, results and assessment
\* counter as they were.
C9_EmptyInputCreatesNothing ==
    [][\A sid \in SessionIds, c \in 1..MaxUploads, r \in 1..MaxUploads, kb \in BOOLEAN :
          ( /\ \/ sid \notin DOMAIN sessions
               \/ get_clauses_by_document(sessions, sid, c) = {}
            /\ assess_compliance(sid, c, r, kb) ) =>
          /\ asmt'.status = "rejected"
          /\ AssessView(sessions', sid) = AssessView(sessions, sid)]_vars

\* an /assess request was rejected for its empty customer document
C9_Witness ==
    /\ asmt.status = "rejected"
    /\ asmt.sid \in DOMAIN sessions
    /\ sessions[asmt.sid].doc_counter >= 1

\* C10: when the judgment call raises or answers text that is not JSON, the
\* task stores a result for its customer clause with status UNKNOWN, risk
\* HIGH, confidence 0.0 and returns it (so it is counted), the other tasks are
\* left as they were, and the count the handler returns is the number of
\* tasks that returned a result.
C10_FailedJudgmentStoresDefault ==
    /\ [][\A i \in 1..MaxClauses, reply \in Replies :
            (reply.kind # "json" /\ process_clause_finish(i, reply)) =>
            LET rid == asmt'.tasks[i].result
                rs == sessions'[asmt.sid].assessment_results
            IN /\ rid # None
               /\ rid \in DOMAIN rs
               /\ rs[rid].assessment_id = asmt.id
               /\ rs[rid].customer_clause_id = asmt.tasks[i].clause
               /\ rs[rid].status = "UNKNOWN"
               /\ rs[rid].risk = "HIGH"
               /\ rs[rid].confidence = 0
               /\ \A j \in DOMAIN asmt.tasks \ {i} : asmt'.tasks[j] = asmt.tasks[j]]_vars
    /\ [][assess_return =>
            asmt'.results_count =
               Cardinality({i \in DOMAIN asmt.tasks : asmt.tasks[i].result # None})]_vars

\* an assessment returned with two results: a default verdict for the clause
\* whose judgment failed and the verdict of the other clause
C10_Witness ==
    /\ asmt.status = "returned"
    /\ asmt.results_count = 2
    /\ asmt.sid \in DOMAIN sessions
    /\ \E r1, r2 \in StoredResults :
          LET rs == sessions[asmt.sid].assessment_results
          IN /\ rs[r1].status = "UNKNOWN" /\ rs[r1].risk = "HIGH"
             /\ rs[r1].confidence = 0
             /\ rs[r2].status = "COMPLIANT"
             /\ rs[r1].customer_clause_id # rs[r2].customer_clause_id

-----------------------------------------------------------------------------
(* backend/rag.py: analyze_compliance over the replies of the judgment call *)

Fields == <<"status", "risk", "reasoning", "evidence_text", "confidence">>

\* the keys final() accepts for each field
Aliases ==
    [status        |-> {"status", "compliance_status"},
     risk          |-> {"risk", "risk_level"},
     reasoning     |-> {"reasoning", "description"},
     evidence_text |-> {"evidence_text", "literal_evidence", "evidence"},
     confidence    |-> {"confidence", "confidence_score"}]

\* a JSON object that carries, for each field, no key (0), the key of the
\* prompt (1) or its alias (2)
ReplyData(c) ==
    LET all == [i \in 1..Len(Fields) |->
                   <<IF c[i] = 0 THEN "" ELSE ReplyKeys[Fields[i]][c[i]],
                     ReplyValues[Fields[i]]>>]
    IN SelectSeq(all, LAMBDA p : p[1] # "")

JudgeReplies ==
    Replies
    \cup {JsonReply(ReplyData(c)) : c \in [1..Len(Fields) -> 0..2]}
    \cup {JsonReply(<< <<"status", "COMPLIANT">>, <<"Status", "PARTIAL">> >>),
          JsonReply(<< <<"note", "n/a">> >>),
          JsonReply(<< <<"evidence", "quote">>, <<"Risk", "LOW">> >>)}

\* the judgment call returns `reply` and analyze_compliance answers
analyze_call ==
    /\ call.fn = "analyze_compliance"
    /\ ~call.done
    /\ call' = [call EXCEPT !.done = TRUE, !.out = analyze_compliance(call.reply)]
    /\ UNCHANGED <<use_pinecone, vector_store, sessions, now, asmt, served, history, chat, threads, storage>>

InitJudge ==
    /\ use_pinecone \in BOOLEAN
    /\ vector_store = [is_none |-> ~use_pinecone, vectors |-> {}]
    /\ sessions = <<>>
    /\ now = 0
    /\ asmt = Idle
    /\ served = [uploads |-> 0, assessments |-> 0]
    /\ history = <<>>
    /\ chat = NoChat
    /\ storage = NoFiles
    /\ threads = NoThreads
    /\ call \in {[fn |-> "analyze_compliance", reply |-> r, done |-> FALSE,
                  out |-> DefaultVerdict] : r \in JudgeReplies}

JudgeNext == analyze_call

\* analyze_compliance applied to every reply of JudgeReplies
SpecJudge == InitJudge /\ [][JudgeNext]_vars

\* the reply is a JSON object and some field is missing under every alias
Incomplete(reply) ==
    /\ reply.kind = "json"
    /\ \E f \in DOMAIN Aliases : Aliases[f] \cap DOMAIN normalized(reply.data) = {}

\* C11: when the judgment reply parses but is incomplete (a field missing
\* under every accepted alias), the verdict is the whole default verdict
\* UNKNOWN / HIGH / 0.0, never a mix of present and defaulted fields.
C11_IncompleteGivesDefault ==
    (call.fn = "analyze_compliance" /\ call.done /\ Incomplete(call.reply))
        => call.out = DefaultVerdict

-----------------------------------------------------------------------------
(* backend/rag.py: reciprocal_rank_fusion *)

MaxRank == 3    \* results in one source list

RRF_K == 60     \* reciprocal_rank_fusion(k=60)

\* Scores are exact fractions: a score is kept as the integer
\* score * ScoreScale(k), a weight as its number of halves (1.0 is 2, 1.5 is 3)
RECURSIVE Product(_, _)
Product(a, b) == IF a > b THEN 1 ELSE a * Product(a + 1, b)

ScoreScale(k) == 2 * Product(k + 1, k + MaxRank)

\* the term without the multiplication by the source weight
rrf_term_unweighted(weight, k, rank) == 2 * (Product(k + 1, k + MaxRank) \div (k + rank + 1))

\* weight * (1 / (k + rank + 1)), rank counted from 0
rrf_term(weight, k, rank) == weight * (Product(k + 1, k + MaxRank) \div (k + rank + 1))

\* a retrieved document: the metadata reciprocal_rank_fusion reads, and the
\* doc_id that tells two uploads of one file apart
Doc(source_type, doc_name, clause_id, doc_id) ==
    [source_type |-> source_type, doc_name |-> doc_name, clause_id |-> clause_id,
     doc_id |-> doc_id]

\* a key that leaves the document name out
rrf_key_without_doc_name(doc) == doc.source_type \o "_" \o doc.clause_id

\* key = f"{source_type}_{doc_name}_{clause_id}"
rrf_key(doc) == doc.source_type \o "_" \o doc.doc_name \o "_" \o doc.clause_id

\* source_weights as given ([given |-> FALSE] is None); 1.0 where none is given
NoWeights == [given |-> FALSE]
GivenWeights(w) == [given |-> TRUE, w |-> w]

weight_of(source_weights, src_idx) ==
    IF source_weights.given /\ src_idx <= Len(source_weights.w)
    THEN source_weights.w[src_idx]
    ELSE 2

\* fused_scores[key] = (doc, fused_scores[key][1] + term): fused_scores is kept
\* as the sequence of its entries in insertion order
rrf_add(fused, doc, term) ==
    IF \E i \in 1..Len(fused) : fused[i].key = rrf_key(doc)
    THEN LET i == CHOOSE j \in 1..Len(fused) : fused[j].key = rrf_key(doc)
         IN [fused EXCEPT ![i] = [key |-> rrf_key(doc), doc |-> doc,
                                  score |-> @.score + term]]
    ELSE Append(fused, [key |-> rrf_key(doc), doc |-> doc, score |-> term])

\* the inner loop over enumerate(results), from position pos on
RECURSIVE rrf_results(_, _, _, _, _)
rrf_results(fused, results, pos, weight, k) ==
    IF pos > Len(results) THEN fused
    ELSE rrf_results(rrf_add(fused, results[pos], rrf_term(weight, k, pos - 1)),
                     results, pos + 1, weight, k)

\* the outer loop over enumerate(search_results_list), from source src_idx on
RECURSIVE rrf_sources(_, _, _, _, _)
rrf_sources(fused, search_results_list, src_idx, k, source_weights) ==
    IF src_idx > Len(search_results_list) THEN fused
    ELSE rrf_sources(rrf_results(fused, search_results_list[src_idx], 1,
                                 weight_of(source_weights, src_idx), k),
                     search_results_list, src_idx + 1, k, source_weights)

\* the sort without reverse=True
sorted_insert_ascending(sorted, e) ==
    LET n == Cardinality({i \in 1..Len(sorted) : sorted[i].score <= e.score})
    IN SubSeq(sorted, 1, n) \o <<e>> \o SubSeq(sorted, n + 1, Len(sorted))

\* a descending sort that is not stable: an entry goes before its equals
sorted_insert_before_equals(sorted, e) ==
    LET n == Cardinality({i \in 1..Len(sorted) : sorted[i].score > e.score})
    IN SubSeq(sorted, 1, n) \o <<e>> \o SubSeq(sorted, n + 1, Len(sorted))

\* sorted(..., key=score, reverse=True): stable, so equal scores keep their
\* insertion order
sorted_insert(sorted, e) ==
    LET n == Cardinality({i \in 1..Len(sorted) : sorted[i].score >= e.score})
    IN SubSeq(sorted, 1, n) \o <<e>> \o SubSeq(sorted, n + 1, Len(sorted))

RECURSIVE sorted_desc(_, _)
sorted_desc(sorted, rest) ==
    IF rest = <<>> THEN sorted
    ELSE sorted_desc(sorted_insert(sorted, Head(rest)), Tail(rest))

reciprocal_rank_fusion(search_results_list, k, source_weights) ==
    LET fused_scores == rrf_sources(<<>>, search_results_list, 1, k, source_weights)
        fused_results == sorted_desc(<<>>, fused_scores)
    IN [i \in 1..Len(fused_results) |->
           [doc |-> fused_results[i].doc, score |-> fused_results[i].score]]

\* the documents the fusion is applied to: one clause, the same clause from
\* the knowledge base, from another file, and another clause of the file
RRFDocs ==
    { Doc("DOC", "a_b.pdf", "1.1", 1),
      Doc("KB",  "a_b.pdf", "1.1", 1),
      Doc("DOC", "a.pdf",   "1.1", 2),
      Doc("DOC", "a_b.pdf", "1.2", 1) }

RECURSIVE SeqsUpTo(_, _)
SeqsUpTo(S, n) ==
    IF n = 0 THEN {<<>>}
    ELSE LET shorter == SeqsUpTo(S, n - 1)
         IN shorter \cup {Append(q, x) : q \in {r \in shorter : Len(r) = n - 1}, x \in S}

ResultLists == SeqsUpTo(RRFDocs, MaxRank)

\* zero, one or two source lists; no weights or the weights of
\* retrieve_similar_clauses
RRFInputs ==
    {[lists |-> l, source_weights |-> w] :
        l \in {<<>>} \cup {<<a>> : a \in ResultLists}
                     \cup {<<a, b>> : a \in ResultLists, b \in ResultLists},
        w \in {NoWeights, GivenWeights(<<3, 2>>), GivenWeights(<<3>>)}}

rrf_call ==
    /\ call.fn = "reciprocal_rank_fusion"
    /\ ~call.done
    /\ call' = [call EXCEPT !.done = TRUE,
                            !.out = reciprocal_rank_fusion(call.lists, RRF_K,
                                                           call.source_weights)]
    /\ UNCHANGED <<use_pinecone, vector_store, sessions, now, asmt, served, history, chat, threads, storage>>

InitRRF ==
    /\ use_pinecone = TRUE
    /\ vector_store = [is_none |-> FALSE, vectors |-> {}]
    /\ sessions = <<>>
    /\ now = 0
    /\ asmt = Idle
    /\ served = [uploads |-> 0, assessments |-> 0]
    /\ history = <<>>
    /\ chat = NoChat
    /\ storage = NoFiles
    /\ threads = NoThreads
    /\ call \in {[fn |-> "reciprocal_rank_fusion", lists |-> x.lists,
                  source_weights |-> x.source_weights, done |-> FALSE,
                  out |-> <<>>] : x \in RRFInputs}

RRFNext == rrf_call

\* reciprocal_rank_fusion applied to every input of RRFInputs
SpecRRF == InitRRF /\ [][RRFNext]_vars

\* the composite key of a record: (sourceType, docName, clauseId)
Triple(doc) == <<doc.source_type, doc.doc_name, doc.clause_id>>

Triples(lists) == {Triple(lists[s][r]) : <<s, r>> \in
                      {x \in (1..Len(lists)) \X (1..MaxRank) : x[2] <= Len(lists[x[1]])}}

\* the occurrences <<source, position>> of a composite key in the source lists
Occurrences(lists, t) ==
    {x \in (1..Len(lists)) \X (1..MaxRank) :
        x[2] <= Len(lists[x[1]]) /\ Triple(lists[x[1]][x[2]]) = t}

\* sum over the occurrences O of weight[s] * 1 / (K + r + 1), r counted from 0,
\* on the scale of ScoreScale(K) and with weight 1.0 where none is given
RECURSIVE SumOfTerms(_, _)
SumOfTerms(O, w) ==
    IF O = {} THEN 0
    ELSE LET x == CHOOSE y \in O : TRUE
             weight == IF w.given /\ x[1] <= Len(w.w) THEN w.w[x[1]] ELSE 2
         IN (weight * ScoreScale(RRF_K)) \div (2 * (RRF_K + (x[2] - 1) + 1))
                + SumOfTerms(O \ {x}, w)

RRFDone == call.fn = "reciprocal_rank_fusion" /\ call.done

ScoreOf(out, t) == out[CHOOSE i \in 1..Len(out) : Triple(out[i].doc) = t].score

\* item x is rank 0 of source A and rank 2 of source B, item y is rank 0 of
\* source B and occurs nowhere else, and no weights are given
MonotonicityCase(x, y) ==
    /\ Len(call.lists) = 2 /\ ~call.source_weights.given
    /\ Len(call.lists[1]) >= 1 /\ Len(call.lists[2]) >= 3
    /\ x = Triple(call.lists[1][1]) /\ x = Triple(call.lists[2][3])
    /\ y = Triple(call.lists[2][1])
    /\ Occurrences(call.lists, y) = {<<2, 1>>}

\* C12: every fused item's score is the sum, over the occurrences of its
\* composite key at rank r of source s, of weight[s] * 1/(60 + r + 1) (weight
\* 1.0 when none is given); the items come in non-increasing score order; an
\* item at rank 0 of source A and rank 2 of source B outscores an item found
\* only at rank 0 of source B.
C12_FusedScoreAndOrder ==
    RRFDone =>
        /\ \A i \in 1..Len(call.out) :
              call.out[i].score =
                  SumOfTerms(Occurrences(call.lists, Triple(call.out[i].doc)),
                             call.source_weights)
        /\ \A i \in 1..(Len(call.out) - 1) : call.out[i].score >= call.out[i + 1].score
        /\ \A x \in Triples(call.lists), y \in Triples(call.lists) :
              MonotonicityCase(x, y) => ScoreOf(call.out, x) > ScoreOf(call.out, y)

C12_Witness ==
    /\ RRFDone
    /\ \E x \in Triples(call.lists), y \in Triples(call.lists) :
          /\ MonotonicityCase(x, y)
          /\ x # y
          /\ Triple(call.out[1].doc) = x

\* C13: the fused list holds exactly one entry for every composite key
\* (sourceType, docName, clauseId) of the source lists: records with equal
\* keys are merged, their contributions summed, and records whose keys differ
\* are never merged.
C13_OneEntryPerKey ==
    RRFDone =>
        /\ \A i \in 1..Len(call.out), j \in 1..Len(call.out) :
              Triple(call.out[i].doc) = Triple(call.out[j].doc) => i = j
        /\ {Triple(call.out[i].doc) : i \in 1..Len(call.out)} = Triples(call.lists)
        /\ Len(call.out) = Cardinality(Triples(call.lists))
        /\ \A t \in Triples(call.lists) :
              Cardinality(Occurrences(call.lists, t)) > 1 =>
                  \A x \in Occurrences(call.lists, t) :
                      ScoreOf(call.out, t) > SumOfTerms({x}, call.source_weights)

\* one clause found in both sources and twice in one of them, next to the
\* same clause of another file
C13_Witness ==
    /\ RRFDone
    /\ Len(call.lists) = 2 /\ Len(call.out) = 2
    /\ \E t \in Triples(call.lists), u \in Triples(call.lists) :
          /\ t[1] = u[1] /\ t[2] # u[2] /\ t[3] = u[3]
          /\ Cardinality(Occurrences(call.lists, t)) = 3
          /\ \E x \in Occurrences(call.lists, t) : x[1] = 1
          /\ \E x \in Occurrences(call.lists, t) : x[1] = 2

NonEmptySources == {s \in 1..Len(call.lists) : call.lists[s] # <<>>}

OutDocs == [i \in 1..Len(call.out) |-> call.out[i].doc]

\* the items of a list without the later repetitions of a composite key
DistinctItems(results) ==
    SelectSeq([i \in 1..Len(results) |->
                  [doc |-> results[i],
                   first |-> \A j \in 1..(i - 1) : Triple(results[j]) # Triple(results[i])]],
              LAMBDA e : e.first)

\* C14 as stated: the empty list when every source is empty (or there is
\* none); with exactly one non-empty source, that source's distinct items in
\* their original rank order.
C14_OneSourceKeepsOrder ==
    RRFDone =>
        /\ NonEmptySources = {} => call.out = <<>>
        /\ \A s \in NonEmptySources :
              NonEmptySources = {s} =>
                  OutDocs = [i \in 1..Len(DistinctItems(call.lists[s])) |->
                                DistinctItems(call.lists[s])[i].doc]

\* C14 as amended: the empty list when every source is empty (or there is
\* none); with exactly one non-empty source in which no composite key
\* repeats, that source's items in their original rank order.
C14_OneSourceWithoutRepeatsKeepsOrder ==
    RRFDone =>
        /\ NonEmptySources = {} => call.out = <<>>
        /\ \A s \in NonEmptySources :
              (/\ NonEmptySources = {s}
               /\ Len(DistinctItems(call.lists[s])) = Len(call.lists[s]))
                  => OutDocs = call.lists[s]

C14_Witness ==
    /\ RRFDone
    /\ Len(call.lists) = 2
    /\ NonEmptySources = {2}
    /\ Len(call.lists[2]) = MaxRank
    /\ Len(DistinctItems(call.lists[2])) = MaxRank
    /\ OutDocs = call.lists[2]

-----------------------------------------------------------------------------
(* backend/models.py: the per-session id counters *)

\* the four entity kinds: the collection and its counter
Kinds ==
    { [coll |-> "documents", counter |-> "doc_counter"],
      [coll |-> "clauses", counter |-> "clause_counter"],
      [coll |-> "assessments", counter |-> "assessment_counter"],
      [coll |-> "assessment_results", counter |-> "result_counter"] }

\* C15: within a session, for each entity kind the ids handed out by
\* successive adds are strictly increasing, and an id once issued is never
\* issued again, whatever adds and deletes happen in between: every id a
\* step adds is above the counter, which is at or above every id issued.
C15_IdsIncreaseNeverReused ==
    [][\A sid \in DOMAIN sessions \cap DOMAIN sessions' : \A k \in Kinds :
          LET old == sessions[sid]
              new == sessions'[sid]
          IN /\ \A id \in DOMAIN old[k.coll] : id <= old[k.counter]
             /\ new[k.counter] >= old[k.counter]
             /\ \A id \in DOMAIN new[k.coll] \ DOMAIN old[k.coll] :
                   id > old[k.counter] /\ id <= new[k.counter]]_vars

\* a document was deleted and the next one got a fresh id
C15_Witness ==
    /\ "s1" \in DOMAIN sessions
    /\ DOMAIN sessions["s1"].documents = {2}
    /\ sessions["s1"].doc_counter = 2
    /\ sessions["s1"].clause_counter > Cardinality(DOMAIN sessions["s1"].clauses)

-----------------------------------------------------------------------------
(* backend/main.py: POST /chat *)

MaxChats == 2       \* /chat requests served in a run

CHAT_TOP_K == 20    \* retrieve_similar_clauses(query, top_k=20, ...)

Queries == {"q"}

NO_RELEVANT_INFO == "NO_RELEVANT_INFO"
GUIDANCE == "I couldn't find any relevant information. Please upload some documents or enable the Knowledge Base to get started."

\* what answer_from_source may return: an answer, the marker, the marker
\* inside a sentence
SourceReplies == {"The limit is 5 kW.", "NO_RELEVANT_INFO", "Sorry, NO_RELEVANT_INFO here."}

\* "NO_RELEVANT_INFO" in answer, for the replies above
has_marker == [r \in SourceReplies |-> Contains(r, NO_RELEVANT_INFO)]

\* the result of a similarity search over the vectors S: the k best, best
\* first, labelled with source_type. The ranking is the engine's; the model
\* takes one order, the handlers below never read the order.
RECURSIVE Ranked(_)
Ranked(S) ==
    IF S = {} THEN <<>>
    ELSE LET v == CHOOSE x \in S : TRUE IN <<v>> \o Ranked(S \ {v})

similarity_search_with_score(S, k, source_type) ==
    LET r == Ranked(S)
    IN [i \in 1..Min(k, Len(r)) |->
           Doc(source_type, r[i].doc_name, r[i].clause_id, r[i].doc_id)]

\* retrieve_similar_clauses(query, top_k, use_kb, session_id) without doc_id,
\* as /chat calls it. doc_ok / kb_ok: the engine answers the session search /
\* the permanent search. Pinecone mode logs an engine error and goes on with
\* an empty list; the FAISS search is outside any try.
retrieve_similar_clauses_fused(vs, pinecone, top_k, use_kb, sid, doc_ok, kb_ok) ==
    IF vs.is_none THEN [kind |-> "list", results |-> <<>>]
    ELSE IF pinecone
    THEN LET doc_results ==
                 IF doc_ok
                 THEN similarity_search_with_score(
                          NsVectors(vs, get_session_namespace(sid)), top_k, "DOC")
                 ELSE <<>>
             kb_results ==
                 IF use_kb /\ kb_ok
                 THEN similarity_search_with_score(NsVectors(vs, PERMANENT),
                                                   2 * top_k, "KB")
                 ELSE <<>>
             fused == reciprocal_rank_fusion(<<kb_results, doc_results>>, RRF_K,
                                             GivenWeights(<<3, 2>>))
         IN [kind |-> "list",
             results |-> [i \in 1..Min(top_k + 5, Len(fused)) |-> fused[i].doc]]
    ELSE IF ~doc_ok THEN [kind |-> "raise"]
    ELSE LET all_res == similarity_search_with_score(vs.vectors, 2 * top_k, "FAISS")
         IN [kind |-> "list", results |-> SubSeq(all_res, 1, Min(top_k, Len(all_res)))]

\* the namespaces a retrieval searches for the knowledge base: Pinecone mode
\* searches "permanent" only with use_kb, FAISS mode has one store for all
kb_searched(vs, pinecone, use_kb) ==
    /\ ~vs.is_none
    /\ pinecone => use_kb

\* build_context(results, label): the reference lines
build_refs(ss, sid, results, label) ==
    [i \in 1..Len(results) |->
        [label |-> label,
         doc_name |-> IF results[i].doc_id \in DOMAIN ss[sid].documents
                      THEN ss[sid].documents[results[i].doc_id].filename
                      ELSE results[i].doc_name,
         clause_id |-> results[i].clause_id]]

\* an answer: the text of a language-model reply (or the fixed message) and
\* the source list appended to it
Answer(text, sources) == [text |-> text, sources |-> sources]

Outcome(path, calls, answer, save) ==
    [path |-> path, calls |-> calls, answer |-> answer, save |-> save]

General(calls) ==
    Outcome("general", Append(calls, "answer_general_question"),
            Answer("GENERAL", <<>>), TRUE)

\* the single-source paths forwarding the answer without the marker test
chat_answer_forwards_marker(h, kb_results, doc_results, kb_answer, doc_answer, kb_refs, doc_refs) ==
    LET kb_has_info == ~has_marker[kb_answer]
        doc_has_info == ~has_marker[doc_answer]
        KB == "answer_from_source:KNOWLEDGE BASE"
        DOC == "answer_from_source:UPLOADED DOCUMENT"
    IN IF kb_results = <<>> /\ doc_results = <<>>
       THEN IF h # <<>>
            THEN General(<<>>)
            ELSE Outcome("guidance", <<>>, Answer(GUIDANCE, <<>>), FALSE)
       ELSE IF kb_results # <<>> /\ doc_results # <<>>
       THEN IF kb_has_info /\ doc_has_info
            THEN Outcome("synthesis", <<KB, DOC, "synthesize_responses">>,
                         Answer("SYNTHESIS", <<>>), TRUE)
            ELSE IF kb_has_info
            THEN Outcome("kb", <<KB, DOC>>, Answer(kb_answer, kb_refs), TRUE)
            ELSE IF doc_has_info
            THEN Outcome("doc", <<KB, DOC>>, Answer(doc_answer, doc_refs), TRUE)
            ELSE General(<<KB, DOC>>)
       ELSE IF kb_results # <<>>
       THEN IF TRUE
            THEN Outcome("kb", <<KB>>, Answer(kb_answer, kb_refs), TRUE)
            ELSE General(<<KB>>)
       ELSE IF TRUE
            THEN Outcome("doc", <<DOC>>, Answer(doc_answer, doc_refs), TRUE)
            ELSE General(<<DOC>>)

\* the branches of chat_with_docs after the retrieval: the path taken, the
\* language-model calls made, the answer, and whether the turn is saved
chat_answer(h, kb_results, doc_results, kb_answer, doc_answer, kb_refs, doc_refs) ==
    LET kb_has_info == ~has_marker[kb_answer]
        doc_has_info == ~has_marker[doc_answer]
        KB == "answer_from_source:KNOWLEDGE BASE"
        DOC == "answer_from_source:UPLOADED DOCUMENT"
    IN IF kb_results = <<>> /\ doc_results = <<>>
       THEN IF h # <<>>
            THEN General(<<>>)
            ELSE Outcome("guidance", <<>>, Answer(GUIDANCE, <<>>), FALSE)
       ELSE IF kb_results # <<>> /\ doc_results # <<>>
       THEN IF kb_has_info /\ doc_has_info
            THEN Outcome("synthesis", <<KB, DOC, "synthesize_responses">>,
                         Answer("SYNTHESIS", <<>>), TRUE)
            ELSE IF kb_has_info
            THEN Outcome("kb", <<KB, DOC>>, Answer(kb_answer, kb_refs), TRUE)
            ELSE IF doc_has_info
            THEN Outcome("doc", <<KB, DOC>>, Answer(doc_answer, doc_refs), TRUE)
            ELSE General(<<KB, DOC>>)
       ELSE IF kb_results # <<>>
       THEN IF kb_has_info
            THEN Outcome("kb", <<KB>>, Answer(kb_answer, kb_refs), TRUE)
            ELSE General(<<KB>>)
       ELSE IF doc_has_info
            THEN Outcome("doc", <<DOC>>, Answer(doc_answer, doc_refs), TRUE)
            ELSE General(<<DOC>>)

\* POST /chat. kb_answer / doc_answer: what answer_from_source returns for a
\* source that has results ("" for a source it is not called for); llm_ok: the
\* language-model calls of the turn succeed
chat_with_docs(sid, query, use_kb, doc_ok, kb_ok) ==
    LET h == get_history(history, sid)
        s1 == get_session(sessions, sid, now)
        ret == retrieve_similar_clauses_fused(vector_store, use_pinecone, CHAT_TOP_K,
                                              use_kb, sid, doc_ok, kb_ok)
        similar_docs == IF ret.kind = "list" THEN ret.results ELSE <<>>
        kb_results == SelectSeq(similar_docs, LAMBDA d : d.source_type = "KB")
        doc_results == SelectSeq(similar_docs, LAMBDA d : d.source_type # "KB")
        kb_refs == build_refs(s1, sid, kb_results, "KB")
        doc_refs == build_refs(s1, sid, doc_results, "DOC")
        req == [turn |-> chat.turn + 1, sid |-> sid, query |-> query,
                use_kb |-> use_kb,
                has_doc |-> s1[sid].documents # <<>>,
                kb_searched |-> kb_searched(vector_store, use_pinecone, use_kb),
                kb_n |-> Len(kb_results), doc_n |-> Len(doc_results),
                had_history |-> h # <<>>]
    IN /\ chat.turn < MaxChats
       /\ sessions' = s1
       /\ \E kb_answer \in (IF kb_results # <<>> THEN SourceReplies ELSE {""}),
             doc_answer \in (IF doc_results # <<>> THEN SourceReplies ELSE {""}),
             llm_ok \in BOOLEAN :
             LET out == chat_answer(h, kb_results, doc_results, kb_answer,
                                    doc_answer, kb_refs, doc_refs)
                 failed == ret.kind = "raise" \/ (out.calls # <<>> /\ ~llm_ok)
                 replies == [kb_answer |-> kb_answer, doc_answer |-> doc_answer]
             IN IF failed
                THEN /\ chat' = [path |-> "raised"] @@ req @@ replies
                     /\ UNCHANGED history
                ELSE /\ chat' = [path |-> out.path, calls |-> out.calls,
                                 answer |-> out.answer] @@ req @@ replies
                     /\ history' =
                           IF out.save
                           THEN add_history_message(
                                    add_history_message(history, sid, "user", query),
                                    sid, "bot", out.answer)
                           ELSE history
       /\ UNCHANGED <<use_pinecone, vector_store, now, asmt, served, call, threads, storage>>

ChatNext ==
    \/ \E sid \in SessionIds, f \in Filenames, n \in 0..1, ns \in {"", PERMANENT} :
          upload_file(sid, f, n, ns)
    \/ \E sid \in SessionIds, q \in Queries, use_kb \in BOOLEAN, doc_ok \in BOOLEAN,
          kb_ok \in BOOLEAN :
          chat_with_docs(sid, q, use_kb, doc_ok, kb_ok)

\* uploads and chat turns
SpecChat == Init /\ [][ChatNext]_vars

\* the last /chat request returned an answer
Answered == chat.path \notin {"idle", "raised"}

\* C16: a chat turn whose retrieval returns nothing from any source answers
\* with the fixed guidance message and makes no language-model call, whatever
\* the conversation history holds.
C16_NoResultsGivesGuidance ==
    (chat.path # "idle" /\ chat.kb_n = 0 /\ chat.doc_n = 0 /\ chat.path # "raised")
        => (chat.answer.text = GUIDANCE /\ chat.calls = <<>>)

\* C17: a chat turn of a session that has an uploaded document consults the
\* knowledge base (here: whenever the knowledge base holds a vector) even
\* when the caller's use_kb flag is false.
C17_SessionDocumentForcesKB ==
    (Answered /\ chat.has_doc /\ NsVectors(vector_store, PERMANENT) # {})
        => chat.kb_searched

IsSentinel(answer) == Contains(answer, NO_RELEVANT_INFO)

\* the answer the claim's table gives for the four inputs of a turn
TablePath(kb, doc, kb_sentinel, doc_sentinel) ==
    IF kb /\ doc
    THEN IF ~kb_sentinel /\ ~doc_sentinel THEN "synthesis"
         ELSE IF kb_sentinel /\ doc_sentinel THEN "general"
         ELSE IF ~kb_sentinel THEN "kb" ELSE "doc"
    ELSE IF kb THEN (IF kb_sentinel THEN "general" ELSE "kb")
    ELSE IF doc_sentinel THEN "general" ELSE "doc"

\* C18: with at least one source non-empty, the answer path is the function
\* of (KB non-empty, DOC non-empty, KB answer is the sentinel, DOC answer is
\* the sentinel) the claim tabulates: synthesis, the one useful answer with
\* its own source list, or the general-knowledge answer; the sentinel text
\* never reaches the caller.
C18_AnswerPathTable ==
    (Answered /\ (chat.kb_n > 0 \/ chat.doc_n > 0)) =>
        LET path == TablePath(chat.kb_n > 0, chat.doc_n > 0,
                              chat.kb_n > 0 /\ IsSentinel(chat.kb_answer),
                              chat.doc_n > 0 /\ IsSentinel(chat.doc_answer))
        IN /\ chat.path = path
           /\ ~IsSentinel(chat.answer.text)
           /\ path = "synthesis" =>
                 /\ chat.calls[Len(chat.calls)] = "synthesize_responses"
                 /\ chat.answer.text = "SYNTHESIS"
           /\ path = "general" =>
                 /\ chat.calls[Len(chat.calls)] = "answer_general_question"
                 /\ chat.answer.text = "GENERAL"
           /\ path = "kb" =>
                 /\ chat.answer.text = chat.kb_answer
                 /\ Len(chat.answer.sources) = chat.kb_n
                 /\ \A i \in 1..chat.kb_n : chat.answer.sources[i].label = "KB"
           /\ path = "doc" =>
                 /\ chat.answer.text = chat.doc_answer
                 /\ Len(chat.answer.sources) = chat.doc_n
                 /\ \A i \in 1..chat.doc_n : chat.answer.sources[i].label = "DOC"

\* a single-source turn whose answer carried the marker inside a sentence
C18_Witness ==
    /\ Answered
    /\ chat.kb_n > 0 /\ chat.doc_n = 0
    /\ chat.kb_answer = "Sorry, NO_RELEVANT_INFO here."
    /\ chat.path = "general"

\* C19: every chat turn that returns an answer appends exactly the pair
\* (user: query, bot: answer), in that order, to the session's history; this
\* includes the turn answered with the fixed guidance message.
C19_TurnAppendsPair ==
    [][(chat'.turn # chat.turn /\ chat'.path \notin {"idle", "raised"}) =>
          get_history(history', chat'.sid) =
              get_history(history, chat'.sid) \o
                  << [role |-> "user", content |-> chat'.query],
                     [role |-> "bot", content |-> chat'.answer] >>]_vars

-----------------------------------------------------------------------------
(* backend/main.py: POST /upload and the file formats *)

UploadNext ==
    \/ \E sid \in SessionIds, f \in UploadNames, n \in 0..MaxClauses,
          ns \in {"", PERMANENT} : upload_file(sid, f, n, ns)
    \/ \E sid \in SessionIds, d \in 1..MaxUploads : delete_document(sid, d)

\* uploads of every kind of file name
SpecUpload == Init /\ [][UploadNext]_vars

\* the extension of a file name: the text after its last dot, lowered
RECURSIVE AfterLastDot(_, _)
AfterLastDot(s, i) ==
    IF i = 0 THEN "none"
    ELSE IF SubSeq(s, i, i) = "." THEN SubSeq(s, i + 1, Len(s))
    ELSE AfterLastDot(s, i - 1)

Extension(filename) == lower(AfterLastDot(filename, Len(filename)))

Supported == {"pdf", "docx", "xlsx"}

ExtensionOf == [f \in UploadNames |-> Extension(f)]

\* the step serves an upload of file name f
UploadOf(f) ==
    /\ served'.uploads = served.uploads + 1
    /\ call'.fn = "upload_file" /\ call'.filename = f

\* C20: an upload whose extension is not pdf, docx or xlsx fails with the
\* unsupported-format error and changes neither the session's documents,
\* clauses and counters nor the vector index; an upload with one of the three
\* extensions is never rejected as unsupported and is handed to the parser
\* of its format.
C20_UnsupportedFormatRejected ==
    [][\A f \in UploadNames :
          UploadOf(f) =>
              IF ExtensionOf[f] \in Supported
              THEN /\ call'.response # "unsupported"
                   /\ call'.parser = "parse_" \o ExtensionOf[f]
              ELSE /\ call'.response = "unsupported"
                   /\ UNCHANGED <<sessions, vector_store>>]_vars

\* a rejected upload after an accepted one
C20_Witness ==
    /\ call.fn = "upload_file"
    /\ call.filename = "spec.pdf.txt"
    /\ call.response = "unsupported"
    /\ vector_store.vectors # {}

-----------------------------------------------------------------------------
(* backend/rag.py: retrieve_similar_clauses under engine errors *)

\* the vectors a retrieval may find in the index: two clauses of a session
\* document and two of the knowledge base
RetrieveVectors ==
    { Vector(get_session_namespace("s1"), 1, "1.1", "spec.pdf"),
      Vector(get_session_namespace("s1"), 1, "1.2", "spec.pdf"),
      Vector(PERMANENT, 1, "2.1", "kb.pdf"),
      Vector(PERMANENT, 1, "2.2", "kb.pdf") }

\* retrieve_similar_clauses(query, top_k=20, use_kb, session_id) is called;
\* doc_ok / kb_ok: the engine answers the session / the permanent search
retrieve_call ==
    /\ call.fn = "retrieve_similar_clauses"
    /\ ~call.done
    /\ call' = [call EXCEPT
                  !.done = TRUE,
                  !.out = retrieve_similar_clauses_fused(
                              vector_store, use_pinecone, CHAT_TOP_K, call.use_kb,
                              call.sid, call.doc_ok, call.kb_ok)]
    /\ UNCHANGED <<use_pinecone, vector_store, sessions, now, asmt, served, history, chat, threads, storage>>

\* an index after some ingests: the FAISS store exists once a text was added
InitRetrieve ==
    /\ use_pinecone \in BOOLEAN
    /\ \E V \in SUBSET RetrieveVectors :
          vector_store = [is_none |-> (~use_pinecone /\ V = {}), vectors |-> V]
    /\ sessions = <<>>
    /\ now = 0
    /\ asmt = Idle
    /\ served = [uploads |-> 0, assessments |-> 0]
    /\ history = <<>>
    /\ chat = NoChat
    /\ storage = NoFiles
    /\ threads = NoThreads
    /\ call \in {[fn |-> "retrieve_similar_clauses", sid |-> "s1", use_kb |-> kb,
                  doc_ok |-> d, kb_ok |-> k, done |-> FALSE,
                  out |-> [kind |-> "none"]] : kb \in BOOLEAN, d \in BOOLEAN, k \in BOOLEAN}

RetrieveNext == retrieve_call

\* retrieve_similar_clauses applied to every index and every engine outcome
SpecRetrieve == InitRetrieve /\ [][RetrieveNext]_vars

\* the records of a result list as a set
Records(results) == {results[i] : i \in 1..Len(results)}

\* C21: a vector-engine error during the search of one source gives an empty
\* list for that source only: retrieve_similar_clauses does not raise and
\* still returns what the other source's search found, in every engine mode.
C21_EngineErrorDegradesOneSource ==
    (call.fn = "retrieve_similar_clauses" /\ call.done
        /\ (~call.doc_ok \/ ~call.kb_ok)) =>
    /\ call.out.kind = "list"
    /\ (call.doc_ok /\ use_pinecone) =>
          {d \in Records(call.out.results) : d.source_type = "DOC"} =
              Records(similarity_search_with_score(
                  NsVectors(vector_store, get_session_namespace(call.sid)),
                  CHAT_TOP_K, "DOC"))
    /\ (call.kb_ok /\ call.use_kb /\ use_pinecone) =>
          {d \in Records(call.out.results) : d.source_type = "KB"} =
              Records(similarity_search_with_score(
                  NsVectors(vector_store, PERMANENT), 2 * CHAT_TOP_K, "KB"))

-----------------------------------------------------------------------------
(* The handlers on their threads. upload_file is a coroutine: parse_document *)
(* runs on the event-loop thread, and no await separates its store calls.    *)
(* delete_document, reset_data and get_graph_data are plain functions, which *)
(* FastAPI runs on worker threads: their store calls interleave with those   *)
(* of the event-loop thread. The store has no lock. A handler taken as one   *)
(* action is a run of its thread without a switch.                           *)

IdleThread == [pc |-> "idle"]

\* session s1 after the upload of a customer document (1) and a regulation
\* (2) of one clause each, and one assessment of the pair with one result
RaceSessions ==
    LET s1 == parse_document_store(<<>>, "s1", 0, "customer.pdf", RawClauses(1))
        s2 == parse_document_store(s1, "s1", 0, "regulation.pdf", RawClauses(1))
        s3 == add_assessment(s2, "s1", 0, 1, 2)
    IN add_result(s3, "s1", 0, 1, 1, 2, analyze_compliance(JsonReply(CompleteData)))

RaceVectors(pinecone) ==
    ingest_documents(
        ingest_documents([is_none |-> ~pinecone, vectors |-> {}], pinecone,
                         ingest_clauses(1, "customer.pdf", RawClauses(1)),
                         get_session_namespace("s1")),
        pinecone, ingest_clauses(2, "regulation.pdf", RawClauses(1)),
        get_session_namespace("s1"))

InitRace ==
    /\ use_pinecone \in BOOLEAN
    /\ vector_store = RaceVectors(use_pinecone)
    /\ sessions = RaceSessions
    /\ now = 0
    /\ asmt = Idle
    /\ served = [uploads |-> 0, assessments |-> MaxAssessments]
    /\ history = <<>>
    /\ chat = NoChat
    /\ storage = PairFiles
    /\ call = NoCall
    /\ threads = [upload |-> IdleThread, reader |-> IdleThread]

\* parse_document, after the parser returned n clauses: store.add_document
upload_add_document(sid, filename, n) ==
    LET s1 == add_document(sessions, sid, now, filename)
    IN /\ threads.upload.pc = "idle"
       /\ served.uploads < MaxUploads
       /\ served' = [served EXCEPT !.uploads = @ + 1]
       /\ sessions' = s1
       /\ threads' = [threads EXCEPT !.upload =
              [pc |-> "clauses", sid |-> sid, filename |-> filename,
               doc_id |-> s1[sid].doc_counter, raw_clauses |-> RawClauses(n),
               next |-> 1]]
       /\ UNCHANGED <<use_pinecone, vector_store, now, asmt, history, chat, call, storage>>

\* one turn of the loop over raw_clauses: store.add_clause(document_id=doc.id)
upload_add_clause ==
    LET u == threads.upload
    IN /\ u.pc = "clauses"
       /\ u.next <= Len(u.raw_clauses)
       /\ sessions' = add_clause(sessions, u.sid, now, u.doc_id, u.raw_clauses[u.next])
       /\ threads' = [threads EXCEPT !.upload.next = @ + 1]
       /\ UNCHANGED <<use_pinecone, vector_store, now, asmt, served, history, chat, call, storage>>

\* after the loop: ingest_documents, the file is saved and the handler answers
upload_return ==
    LET u == threads.upload
    IN /\ u.pc = "clauses"
       /\ u.next > Len(u.raw_clauses)
       /\ vector_store' = ingest_documents(vector_store, use_pinecone,
                              ingest_clauses(u.doc_id, u.filename, u.raw_clauses),
                              get_session_namespace(u.sid))
       /\ storage' = write_file(storage, u.doc_id, u.sid, u.filename)
       /\ threads' = [threads EXCEPT !.upload = IdleThread]
       /\ UNCHANGED <<use_pinecone, sessions, now, asmt, served, history, chat, call>>

\* GET /graph/{assessment_id} on its worker thread.
\* the response: a node per clause of the regulation document, a node and an
\* edge per result (the customer clause's label, or its id when it is gone)
graph(ss, sid, assessment, results) ==
    LET reg_clauses == SortedSeq(get_clauses_by_document(ss, sid,
                                     assessment.regulation_doc_id))
    IN [kind |-> "graph",
        regulation |-> [i \in 1..Len(reg_clauses) |->
            [id |-> reg_clauses[i],
             label |-> ss[sid].clauses[reg_clauses[i]].clause_id]],
        customer |-> [i \in 1..Len(results) |->
            [id |-> results[i].customer_clause_id,
             label |-> IF results[i].customer_clause_id \in DOMAIN ss[sid].clauses
                       THEN ss[sid].clauses[results[i].customer_clause_id].clause_id
                       ELSE ToString(results[i].customer_clause_id),
             status |-> results[i].status]],
        edges |-> [i \in 1..Len(results) |->
            [from |-> results[i].customer_clause_id,
             to |-> results[i].regulation_clause_id]]]

NotFound == [kind |-> "not_found"]

\* assessment = store.get_assessment(...); 404 when there is none
graph_get_assessment(sid, assessment_id) ==
    LET s1 == get_session(sessions, sid, now)
    IN /\ threads.reader.pc = "idle"
       /\ sessions' = s1
       /\ threads' = [threads EXCEPT !.reader =
              IF assessment_id \in DOMAIN s1[sid].assessments
              THEN [pc |-> "results", sid |-> sid, assessment_id |-> assessment_id,
                    assessment |-> s1[sid].assessments[assessment_id]]
              ELSE [pc |-> "returned", response |-> NotFound]]
       /\ UNCHANGED <<use_pinecone, vector_store, now, asmt, served, history, chat, call, storage>>

\* results = store.get_results_by_assessment(...)
graph_get_results ==
    LET rd == threads.reader
        s1 == get_session(sessions, rd.sid, now)
        ids == SortedSeq(get_results_by_assessment(s1, rd.sid, rd.assessment_id))
    IN /\ rd.pc = "results"
       /\ sessions' = s1
       /\ threads' = [threads EXCEPT !.reader =
              [pc |-> "clauses", results |-> [i \in 1..Len(ids) |->
                                     s1[rd.sid].assessment_results[ids[i]]]] @@ rd]
       /\ UNCHANGED <<use_pinecone, vector_store, now, asmt, served, history, chat, call, storage>>

\* the clauses are read and the nodes and edges built: the handler answers
graph_get_clauses ==
    LET rd == threads.reader
        s1 == get_session(sessions, rd.sid, now)
    IN /\ rd.pc = "clauses"
       /\ sessions' = s1
       /\ threads' = [threads EXCEPT !.reader =
              [pc |-> "returned",
               response |-> graph(s1, rd.sid, rd.assessment, rd.results)]]
       /\ UNCHANGED <<use_pinecone, vector_store, now, asmt, served, history, chat, call, storage>>

\* the steps of the event-loop thread and the handlers of the worker threads
RaceNext ==
    \/ \E f \in Filenames, n \in 0..MaxClauses : upload_add_document("s1", f, n)
    \/ upload_add_clause
    \/ upload_return
    \/ \E d \in 1..(MaxUploads + 2) : delete_document("s1", d)
    \/ \E ok \in BOOLEAN : reset_data("s1", ok)
    \/ graph_get_assessment("s1", 1)
    \/ graph_get_results
    \/ graph_get_clauses

\* one session under an upload, deletes, resets and reads on their threads
SpecRace == InitRace /\ [][RaceNext]_vars

\* C22: whenever no upload is in progress, every clause of a session has a
\* documentId that is the id of a document present in the same session.
C22_ClauseDocumentIsLive ==
    threads.upload.pc = "idle" =>
        \A sid \in DOMAIN sessions : \A c \in DOMAIN sessions[sid].clauses :
            sessions[sid].clauses[c].document_id \in DOMAIN sessions[sid].documents

-----------------------------------------------------------------------------
(* backend/main.py: the documents an assessment names *)

\* C23: every assessment of a session names, as customer and as regulation
\* document, ids of documents present in the same session; /assess with a
\* regulationDocId that names no document leaves no Assessment record.
C23_AssessmentDocumentsAreLive ==
    \A sid \in DOMAIN sessions : \A a \in DOMAIN sessions[sid].assessments :
        /\ sessions[sid].assessments[a].customer_doc_id \in DOMAIN sessions[sid].documents
        /\ sessions[sid].assessments[a].regulation_doc_id \in DOMAIN sessions[sid].documents

-----------------------------------------------------------------------------
(* backend/main.py: the verdict process_clause stores *)

\* replies of the judgment call that parse as JSON objects and carry values
\* outside the enumerations of the prompt
VerdictReplies ==
    Replies \cup
    { JsonReply(<< <<"status", "MAYBE">>, <<"Risk", "LOW">>, <<"confidence", 90>> >>),
      JsonReply(<< <<"status", "PARTIAL">>, <<"Risk", "CRITICAL">>, <<"confidence", 90>> >>),
      JsonReply(<< <<"Compliance Status", "compliant">>, <<"risk_level", "low">> >>) }

\* uploads into one session and one assessment judged with those replies
VerdictNext ==
    \/ \E f \in Filenames, n \in 0..1 : upload_file("s1", f, n, "")
    \/ \E c \in 1..MaxUploads, r \in 1..MaxUploads, kb \in BOOLEAN :
          assess_compliance("s1", c, r, kb)
    \/ \E i \in 1..MaxClauses, o \in Retrievals : process_clause_start(i, o)
    \/ \E i \in 1..MaxClauses, reply \in VerdictReplies : process_clause_finish(i, reply)
    \/ assess_return

SpecVerdict == Init /\ [][VerdictNext]_vars

\* C24: every AssessmentResult stored has status COMPLIANT, PARTIAL,
\* NON_COMPLIANT or UNKNOWN and risk HIGH, MEDIUM or LOW, whatever the
\* judgment call returned for those fields.
C24_StoredVerdictInEnumerations ==
    \A sid \in DOMAIN sessions : \A r \in DOMAIN sessions[sid].assessment_results :
        /\ sessions[sid].assessment_results[r].status
              \in {"COMPLIANT", "PARTIAL", "NON_COMPLIANT", "UNKNOWN"}
        /\ sessions[sid].assessment_results[r].risk \in {"HIGH", "MEDIUM", "LOW"}

-----------------------------------------------------------------------------
(* backend/ingestion.py: the clause extractor *)

\* clause texts with and without the words of obligation
ClauseTexts ==
    { "The inverter shall trip within 2 s.",
      "The enclosure MUST be earthed at once.",
      "An isolation switch is required on site.",
      "A REQUIRED clearance of 1 m is kept.",
      "Installers Shall label every feeder.",
      "A warning label is recommended here.",
      "Fuses should be rated for the load.",
      "Use a mustard-yellow tag on the cable.",
      "Marshalling boxes are painted grey.",
      "Shall and must and required all apply.",
      "The requirements are listed in annex B.",
      "Metering is optional for small plants.",
      "Not required for units below 5 kW.",
      "Earthing resistance is below 5 ohm." }

\* text.lower(), for the texts above
text_lower == [t \in ClauseTexts |-> lower(t)]

\* a clause found by a structural marker (parse_pdf, parse_docx):
\* "MUST" if "shall" in text.lower() or "must" in text.lower() else "SHOULD"
severity_structured(text) ==
    IF Contains(text_lower[text], "shall") \/ Contains(text_lower[text], "must")
    THEN "MUST" ELSE "SHOULD"

\* a fallback paragraph (parse_pdf: no marker on the page; parse_docx: before
\* the first marker): kept when longer than 20 characters, severity "UNKNOWN"
severity_fallback(text) == "UNKNOWN"

severity(parser, structured, text) ==
    IF structured THEN severity_structured(text) ELSE severity_fallback(text)

\* the extractor yields a clause with this text
severity_call ==
    /\ call.fn = "severity"
    /\ ~call.done
    /\ call' = [call EXCEPT !.done = TRUE,
                            !.out = severity(call.parser, call.structured, call.text)]
    /\ UNCHANGED <<use_pinecone, vector_store, sessions, now, asmt, served, history, chat, threads, storage>>

SeverityCalls ==
    {[fn |-> "severity", parser |-> p, structured |-> st, text |-> t,
      done |-> FALSE, out |-> ""] :
        p \in {"parse_pdf", "parse_docx"}, st \in BOOLEAN,
        t \in {x \in ClauseTexts : Len(x) > 20}}

MaxChars == 3400             \* the longest clause text of the model

long_clause_chars == 2500    \* if len(c['text']) > 2500
chunk_size == 800            \* chunk_text(chunk_size=800)
chunk_overlap == 150         \* chunk_text(chunk_overlap=150)

\* the windows without the overlap
chunk_text_without_overlap(text) ==
    [i \in 1..((Len(text) + chunk_size - 1) \div chunk_size) |->
        SubSeq(text, (i - 1) * chunk_size + 1, Min(i * chunk_size, Len(text)))]

\* the while loop of chunk_text, from `start` on: text[start:end] is the
\* slice of the characters start+1 .. end, cut at the end of the text
RECURSIVE chunk_from(_, _)
chunk_from(text, start) ==
    IF start >= Len(text) THEN <<>>
    ELSE <<SubSeq(text, start + 1, Min(start + chunk_size, Len(text)))>>
             \o chunk_from(text, start + chunk_size - chunk_overlap)

chunk_text(text) == IF Len(text) = 0 THEN <<>> ELSE chunk_from(text, 0)

\* the records parse_document sends for embedding for the raw clause c
ingest_records(doc_id, filename, c) ==
    IF Len(c.text) > long_clause_chars
    THEN LET sub_chunks == chunk_text(c.text)
         IN [i \in 1..Len(sub_chunks) |->
                [clause_id |-> c.clause_id \o "-part" \o ToString(i),
                 doc_id |-> doc_id, doc_name |-> filename, text |-> sub_chunks[i]]]
    ELSE <<[clause_id |-> c.clause_id, doc_id |-> doc_id, doc_name |-> filename,
            text |-> c.text]>>

\* a text without a period: "1 2 3 4 ..."
RECURSIVE Numbers(_, _)
Numbers(lo, hi) ==
    IF lo = hi THEN ToString(lo) \o " "
    ELSE Numbers(lo, (lo + hi) \div 2) \o Numbers((lo + hi) \div 2 + 1, hi)

LongText == Numbers(1, MaxChars \div 3)

ChunkLengths ==
    {21, 800, 2499, 2500, 2501, 2600, 2601, 2700, 2749, 2750, 2751, 3250, 3251,
     MaxChars}

\* POST /upload of a file in which the parser finds the one clause of the
\* call: the document and the clause go to the record store, the records to
\* the index, and the handler answers doc_id and chunk_count
upload_clause ==
    LET c == [clause_id |-> call.clause_id, text |-> call.text]
        s1 == parse_document_store(sessions, call.sid, now, call.filename,
                                   <<c.clause_id>>)
        doc_id == s1[call.sid].doc_counter
        recs == ingest_records(doc_id, call.filename, c)
    IN /\ call.fn = "parse_document"
       /\ ~call.done
       /\ sessions' = s1
       /\ vector_store' =
             ingest_documents(vector_store, use_pinecone,
                 {[doc_id |-> recs[i].doc_id, clause_id |-> recs[i].clause_id,
                   doc_name |-> recs[i].doc_name] : i \in 1..Len(recs)},
                 get_session_namespace(call.sid))
       /\ storage' = write_file(storage, doc_id, call.sid, call.filename)
       /\ call' = [call EXCEPT !.done = TRUE,
                      !.out = [doc_id |-> doc_id, chunk_count |-> Len(recs),
                               ingest_clauses |-> recs]]
       /\ UNCHANGED <<use_pinecone, now, asmt, served, history, chat, threads>>

ChunkCalls ==
    {[fn |-> "parse_document", sid |-> "s1", filename |-> "spec.pdf",
      clause_id |-> "3.1", text |-> SubSeq(LongText, 1, n), done |-> FALSE,
      out |-> <<>>] : n \in ChunkLengths}

InitExtract ==
    /\ use_pinecone \in BOOLEAN
    /\ vector_store = [is_none |-> ~use_pinecone, vectors |-> {}]
    /\ sessions = <<>>
    /\ now = 0
    /\ asmt = Idle
    /\ served = [uploads |-> 0, assessments |-> 0]
    /\ history = <<>>
    /\ chat = NoChat
    /\ storage = NoFiles
    /\ threads = NoThreads
    /\ call \in SeverityCalls \cup ChunkCalls

ExtractNext == severity_call \/ upload_clause

\* the extractor and the chunker applied to every text above
SpecExtract == InitExtract /\ [][ExtractNext]_vars

\* the text holds one of the three words, in any case
HasObligationWord(text) ==
    \E w \in {"shall", "must", "required"} : Contains(text_lower[text], w)

\* C25: a non-tabular clause has severity MUST exactly when its text holds
\* "shall", "must" or "required" in any case; otherwise SHOULD for a clause
\* found by a structural marker and UNKNOWN for a fallback paragraph.
C25_SeverityByObligationWords ==
    (call.fn = "severity" /\ call.done) =>
        call.out = IF HasObligationWord(call.text) THEN "MUST"
                   ELSE IF call.structured THEN "SHOULD" ELSE "UNKNOWN"

ChunkDone == call.fn = "parse_document" /\ call.done

\* the texts of the records sent for embedding
Windows == [i \in 1..Len(call.out.ingest_clauses) |-> call.out.ingest_clauses[i].text]

\* what C26 says of the record store, of the names, of a short clause and of
\* chunk_count
ChunkFrame ==
    LET recs == call.out.ingest_clauses
        cl == sessions[call.sid].clauses
    IN /\ DOMAIN cl = {1}
       /\ cl[1].clause_id = call.clause_id
       /\ cl[1].document_id = call.out.doc_id
       /\ call.out.chunk_count = Len(recs)
       /\ Cardinality(vector_store.vectors) = Len(recs)
       /\ IF Len(call.text) > long_clause_chars
          THEN \A k \in 1..Len(recs) :
                  /\ recs[k].clause_id = call.clause_id \o "-part" \o ToString(k)
                  /\ Len(recs[k].text) <= chunk_size
                  /\ Len(recs[k].text) >= 1
          ELSE /\ Len(recs) = 1
               /\ recs[1].clause_id = call.clause_id
               /\ recs[1].text = call.text

\* the last n characters of a text, the first n characters of a text
Suffix(text, n) == SubSeq(text, Len(text) - n + 1, Len(text))
Prefix(text, n) == SubSeq(text, 1, n)

\* C26 as stated: a clause longer than 2500 characters is stored as one
\* clause under its clauseId and embedded as windows of at most 800
\* characters named "<clauseId>-part<k>", every two consecutive windows
\* sharing 150 characters; a shorter clause is embedded as one record under
\* its own clauseId; chunkCount is the number of records embedded.
C26_LongClauseIsWindowed ==
    ChunkDone =>
        /\ ChunkFrame
        /\ Len(call.text) > long_clause_chars =>
              \A k \in 1..(Len(Windows) - 1) :
                  /\ Len(Windows[k + 1]) >= chunk_overlap
                  /\ Suffix(Windows[k], chunk_overlap) = Prefix(Windows[k + 1], chunk_overlap)

\* C26 as amended: the same, with the windows being the slices of at most 800
\* characters that start every 650 characters and together cover the text:
\* consecutive windows share 150 characters, or the whole of a last window
\* that is shorter than 150 characters.
C26_LongClauseIsWindowedEvery650 ==
    ChunkDone =>
        /\ ChunkFrame
        /\ Len(call.text) > long_clause_chars =>
              LET step == chunk_size - chunk_overlap
                  n == Len(call.text)
              IN /\ Len(Windows) = (n + step - 1) \div step
                 /\ \A k \in 1..Len(Windows) :
                       Windows[k] = SubSeq(call.text, (k - 1) * step + 1,
                                           Min((k - 1) * step + chunk_size, n))
                 /\ \A k \in 1..(Len(Windows) - 1) :
                       LET shared == Min(chunk_overlap, Len(Windows[k + 1]))
                       IN Suffix(Windows[k], shared) = Prefix(Windows[k + 1], shared)

\* a clause of 2601 characters: five windows, the last of one character
C26_Witness ==
    /\ ChunkDone
    /\ Len(call.text) = 2601
    /\ Len(Windows) = 5
    /\ Len(Windows[5]) = 1
    /\ call.out.ingest_clauses[5].clause_id = "3.1-part5"
    /\ call.out.chunk_count = 5

-----------------------------------------------------------------------------
(* backend/main.py: the regulation match of process_clause *)

\* the vectors ingested for the regulation document of the request
RegulationVectors ==
    {v \in NsVectors(vector_store, get_session_namespace(asmt.sid)) :
        v.doc_id = asmt.regulation_doc_id}

\* what retrieval gives for the task's clause when the engine answers every
\* search: the head of the session search's k best filtered on the regulation
\* document (Pinecone), the head of the store's k best (FAISS)
AnsweredRetrievals ==
    IF use_pinecone
    THEN first_of_top_k(NsVectors(vector_store, get_session_namespace(asmt.sid)),
                        TOP_K, RegulationVectors)
    ELSE first_of_top_k(vector_store.vectors, TOP_K, vector_store.vectors)

\* C27: while an assessment retrieves and the regulation document has an
\* ingested vector, every retrieval that the engine answers gives a hit, and
\* the hit is a vector of the regulation document, however many vectors of
\* other documents of the session rank above it.
C27_RegulationMatchFound ==
    ( /\ asmt.status = "running"
      /\ \E i \in DOMAIN asmt.tasks : asmt.tasks[i].pc = "queued"
      /\ RegulationVectors # {} ) =>
    /\ AnsweredRetrievals \subseteq Retrievals
    /\ \A o \in AnsweredRetrievals :
          o.kind = "hit" /\ o.v.doc_id = asmt.regulation_doc_id

-----------------------------------------------------------------------------
(* backend/rag.py: ties of reciprocal_rank_fusion *)

\* when a composite key is first seen: the sources are scanned in the given
\* order, each list by increasing rank
FirstSeen(lists, t) ==
    LET at(x) == (x[1] - 1) * (MaxRank + 1) + x[2]
        first == CHOOSE x \in Occurrences(lists, t) :
                    \A y \in Occurrences(lists, t) : at(x) <= at(y)
    IN at(first)

\* C28: two fused items with equal score appear in first-seen order; with
\* the descending score order this fixes the place of every item, so the
\* output order is a function of the input lists alone.
C28_TiesInFirstSeenOrder ==
    RRFDone =>
        \A i \in 1..Len(call.out), j \in 1..Len(call.out) :
            i < j =>
                \/ call.out[i].score > call.out[j].score
                \/ /\ call.out[i].score = call.out[j].score
                   /\ FirstSeen(call.lists, Triple(call.out[i].doc))
                         < FirstSeen(call.lists, Triple(call.out[j].doc))

\* the heads of two unweighted sources tie: the output keeps the head of the
\* first list before the head of the second
C28_Witness ==
    /\ RRFDone
    /\ ~call.source_weights.given
    /\ Len(call.lists) = 2
    /\ Len(call.lists[1]) >= 1 /\ Len(call.lists[2]) >= 1
    /\ Len(call.out) >= 2
    /\ call.out[1].score = call.out[2].score
    /\ Triple(call.out[1].doc) = Triple(call.lists[1][1])
    /\ Triple(call.out[2].doc) = Triple(call.lists[2][1])

-----------------------------------------------------------------------------
(* backend/models.py: two threads in an add operation of one session. The  *)
(* store has no lock: the steps of an add are the counter increment, the   *)
(* read of the counter for the id of the new entity, and the map insert.   *)

AddThreads == {"t1", "t2"}

\* the entity thread t adds to the collection of kind k
Entity(k, t) ==
    CASE k.coll = "documents" -> [filename |-> t \o ".pdf"]
      [] k.coll = "clauses" -> [document_id |-> 1, clause_id |-> t]
      [] k.coll = "assessments" -> [customer_doc_id |-> 1, regulation_doc_id |-> 2]
      [] k.coll = "assessment_results" ->
            [assessment_id |-> 1, customer_clause_id |-> 1, regulation_clause_id |-> 2,
             status |-> "UNKNOWN", risk |-> "HIGH", confidence |-> 0]

\* s = self.get_session(session_id); s.<counter> += 1
add_increment(t) ==
    LET k == threads.kind
        s1 == get_session(sessions, "s1", now)
    IN /\ threads[t].pc = "idle"
       /\ sessions' = [s1 EXCEPT !["s1"][k.counter] = @ + 1]
       /\ threads' = [threads EXCEPT ![t].pc = "incremented"]
       /\ UNCHANGED <<use_pinecone, vector_store, now, asmt, served, history, chat, call, storage>>

\* the entity is built with id=s.<counter>
add_read_id(t) ==
    /\ threads[t].pc = "incremented"
    /\ threads' = [threads EXCEPT ![t].pc = "built",
                                  ![t].id = sessions["s1"][threads.kind.counter]]
    /\ UNCHANGED <<use_pinecone, vector_store, sessions, now, asmt, served, history, chat, call, storage>>

\* s.<collection>[entity.id] = entity; the entity is returned
add_insert(t) ==
    LET k == threads.kind
    IN /\ threads[t].pc = "built"
       /\ sessions' = [sessions EXCEPT !["s1"][k.coll] =
                          Put(@, threads[t].id, Entity(k, t))]
       /\ threads' = [threads EXCEPT ![t].pc = "returned"]
       /\ UNCHANGED <<use_pinecone, vector_store, now, asmt, served, history, chat, call, storage>>

InitAdds ==
    /\ use_pinecone \in BOOLEAN
    /\ vector_store = RaceVectors(use_pinecone)
    /\ sessions = RaceSessions
    /\ now = 0
    /\ asmt = Idle
    /\ served = [uploads |-> MaxUploads, assessments |-> MaxAssessments]
    /\ history = <<>>
    /\ chat = NoChat
    /\ storage = PairFiles
    /\ call = NoCall
    /\ \E k \in Kinds :
          threads = [kind |-> k, t1 |-> [pc |-> "idle", id |-> None],
                     t2 |-> [pc |-> "idle", id |-> None]]

AddsNext ==
    \E t \in AddThreads : add_increment(t) \/ add_read_id(t) \/ add_insert(t)

\* two concurrent adds of one kind on session s1
SpecAdds == InitAdds /\ [][AddsNext]_vars

\* C29: when two adds of the same kind on the same session have both
\* returned, whatever the interleaving of their steps, they have obtained
\* distinct ids and both entities are in the collection.
C29_ConcurrentAddsDistinctIds ==
    (\A t \in AddThreads : threads[t].pc = "returned") =>
        LET coll == sessions["s1"][threads.kind.coll]
            before == RaceSessions["s1"][threads.kind.coll]
        IN /\ threads.t1.id # threads.t2.id
           /\ \A t \in AddThreads : threads[t].id \in DOMAIN coll
           /\ Cardinality(DOMAIN coll) = Cardinality(DOMAIN before) + 2

-----------------------------------------------------------------------------
(* backend/main.py: a reader next to a deletion *)

\* the graph of assessment 1 read from the records before any deletion
\* (uploads add other documents and leave it as it is)
GraphBefore ==
    LET ss == RaceSessions
        ids == SortedSeq(get_results_by_assessment(ss, "s1", 1))
    IN graph(ss, "s1", ss["s1"].assessments[1],
             [i \in 1..Len(ids) |-> ss["s1"].assessment_results[ids[i]]])

\* C30: a reader of the session next to a document deletion or a reset
\* answers with the complete data from before the deletion or with a clean
\* not-found, never with a mix of the two.
C30_ReaderSeesAllOrNothing ==
    threads.reader.pc = "returned" =>
        threads.reader.response \in {GraphBefore, NotFound}

-----------------------------------------------------------------------------
(* The sweep after a failed purge *)

\* C31: a sweep tick whose purge of a session fails (the namespace delete
\* errors) leaves that session selectable for the next tick: every session the
\* tick selected is afterwards either gone from both stores or still selected.
C31_FailedPurgeIsRetried ==
    [][\A okS \in SUBSET SessionIds : session_cleanup_task(okS) =>
          \A sid \in sessions_to_purge(sessions, now) :
             \/ AbsentBoth(sessions', vector_store', sid)
             \/ sid \in sessions_to_purge(sessions', now')]_vars

-----------------------------------------------------------------------------
(* backend/models.py: the operations of the record store, one call a step *)

\* the operations that only read: each is self.get_session(session_id)
\* followed by a lookup in one of the session's maps
ReadOps ==
    {"get_document", "get_all_documents", "get_clause", "get_clauses_by_document",
     "get_clause_by_doc_and_clause_id", "get_assessment", "get_assessments_by_doc",
     "get_results_by_assessment"}

DeleteOps == {"delete_document", "delete_results_by_assessment", "delete_assessment"}

MaxCalls == 3   \* store operations in a run

\* the calls made so far
Calls == IF call.fn = "store" THEN call.n ELSE 0

StoreCall(op, sid) == [fn |-> "store", op |-> op, sid |-> sid, t |-> now, n |-> Calls + 1]

\* add_document, add_clause, add_assessment or add_result
store_add(sid, k) ==
    /\ Calls < MaxCalls
    /\ sessions' =
          CASE k.coll = "documents" -> add_document(sessions, sid, now, "spec.pdf")
            [] k.coll = "clauses" -> add_clause(sessions, sid, now, 1, Labels[1])
            [] k.coll = "assessments" -> add_assessment(sessions, sid, now, 1, 2)
            [] k.coll = "assessment_results" ->
                  add_result(sessions, sid, now, 1, 1, 2, DefaultVerdict)
    /\ call' = StoreCall(k.coll, sid)
    /\ UNCHANGED <<use_pinecone, vector_store, now, asmt, served, history, chat, threads, storage>>

\* a get, list or find operation
store_read(sid, op) ==
    /\ Calls < MaxCalls
    /\ sessions' = get_session(sessions, sid, now)
    /\ call' = StoreCall(op, sid)
    /\ UNCHANGED <<use_pinecone, vector_store, now, asmt, served, history, chat, threads, storage>>

\* a delete operation on id
store_delete(sid, op, id) ==
    /\ Calls < MaxCalls
    /\ sessions' =
          CASE op = "delete_document" -> store_delete_document(sessions, sid, now, id)
            [] op = "delete_results_by_assessment" ->
                  delete_results_by_assessment(sessions, sid, now, id)
            [] op = "delete_assessment" -> delete_assessments(sessions, sid, now, {id})
    /\ call' = StoreCall(op, sid)
    /\ UNCHANGED <<use_pinecone, vector_store, now, asmt, served, history, chat, threads, storage>>

InitStore ==
    /\ use_pinecone \in BOOLEAN
    /\ vector_store = RaceVectors(use_pinecone)
    /\ sessions = RaceSessions
    /\ now = 0
    /\ asmt = Idle
    /\ served = [uploads |-> MaxUploads, assessments |-> MaxAssessments]
    /\ history = <<>>
    /\ chat = NoChat
    /\ storage = PairFiles
    /\ threads = NoThreads
    /\ call = NoCall

StoreOpsNext ==
    \/ \E sid \in SessionIds, k \in Kinds : store_add(sid, k)
    \/ \E sid \in SessionIds, op \in ReadOps : store_read(sid, op)
    \/ \E sid \in SessionIds, op \in DeleteOps, id \in 1..2 : store_delete(sid, op, id)
    \/ \E d \in ClockSteps : Tick(d)

\* the store's operations on a loaded and on an absent session, and the clock
SpecStore == InitStore /\ [][StoreOpsNext]_vars

\* C32: every add, get, list, find and delete of the record store leaves the
\* session's last_activity at the time of the call, and a read changes nothing
\* else in a session that exists; no operation changes another session.
C32_EveryOperationTouches ==
    [][\A sid \in SessionIds :
          LET reads == \E op \in ReadOps : store_read(sid, op)
              writes == \/ \E k \in Kinds : store_add(sid, k)
                        \/ \E op \in DeleteOps, id \in 1..2 : store_delete(sid, op, id)
          IN (reads \/ writes) =>
                /\ sid \in DOMAIN sessions'
                /\ sessions'[sid].last_activity = now
                /\ \A x \in DOMAIN sessions \ {sid} :
                      x \in DOMAIN sessions' /\ sessions'[x] = sessions[x]
                /\ (reads /\ sid \in DOMAIN sessions) =>
                      sessions'[sid] = [sessions[sid] EXCEPT !.last_activity = now]]_vars

\* a read of session s1, 16 minutes after its records were written, has
\* moved last_activity and left the records
C32_Witness ==
    /\ call.fn = "store"
    /\ call.op \in ReadOps
    /\ call.sid = "s1"
    /\ call.t = 16
    /\ sessions["s1"].last_activity = 16
    /\ sessions["s1"].documents = RaceSessions["s1"].documents
    /\ sessions["s1"].assessment_results = RaceSessions["s1"].assessment_results

-----------------------------------------------------------------------------
(* backend/main.py: POST /assess and the end of its tasks *)

\* The handler has answered: with the count, or with the first exception
\* gather handed it. gather's callback runs on the loop iteration after the
\* task that raised, so every task that found a permit has by then run to its
\* judgment call: the tasks still queued are those waiting for a permit.
HandlerAnswered ==
    \/ asmt.status = "returned"
    \/ /\ asmt.status = "aborted"
       /\ \A i \in DOMAIN asmt.tasks :
             asmt.tasks[i].pc = "queued" => ~semaphore_free(asmt.tasks)

\* C33: when /assess has answered its caller, with the count or with an
\* error, every per-clause task it started has completed: none is in its
\* judgment call and none waits for the semaphore.
C33_AnswersAfterEveryTask == HandlerAnswered => Finished(asmt.tasks)

\* C34: every result of a session names an assessment of that session and two
\* clauses of that session, also when a delete or a reset of the session came
\* between the start of the assessment and the write of the result.
C34_ResultsNameLiveRecords ==
    \A sid \in DOMAIN sessions : \A r \in DOMAIN sessions[sid].assessment_results :
        LET res == sessions[sid].assessment_results[r]
        IN /\ res.assessment_id \in DOMAIN sessions[sid].assessments
           /\ res.customer_clause_id \in DOMAIN sessions[sid].clauses
           /\ res.regulation_clause_id \in DOMAIN sessions[sid].clauses

-----------------------------------------------------------------------------
(* backend/ingestion.py: the vectors of an upload and the clauses they name *)

\* C35: after an upload, every vector it ingested names, by its doc_id and
\* clause_id, a clause of the uploading session: the lookup /assess makes for
\* a hit on the vector (get_clause_by_doc_and_clause_id) finds a clause, for
\* the pieces of a clause longer than 2500 characters too.
C35_VectorsResolveToClauses ==
    ChunkDone =>
        \A v \in NsVectors(vector_store, get_session_namespace(call.sid)) :
            get_clause_by_doc_and_clause_id(sessions, call.sid, v.doc_id, v.clause_id)
                # None

-----------------------------------------------------------------------------
(* backend/main.py: POST /upload when the index refuses the upsert *)

\* POST /upload of a file with n >= 1 clauses when ingest_documents raises (a
\* dimension mismatch or any other engine error): parse_document has written
\* the document and its clauses, the exception leaves the handler before the
\* file is saved
upload_file_ingest_raises(sid, filename, n) ==
    LET parser == parser_for(filename)
    IN /\ served.uploads < MaxUploads
       /\ allowed_extension(filename)
       /\ ~parser_raises(parser)
       /\ n >= 1
       /\ served' = [served EXCEPT !.uploads = @ + 1]
       /\ sessions' = parse_document_store(sessions, sid, now, filename, RawClauses(n))
       /\ call' = UploadResponse(filename, "error", parser)
       /\ UNCHANGED <<use_pinecone, vector_store, now, asmt, history, chat, threads, storage>>

IngestNext ==
    \/ \E sid \in SessionIds, f \in Filenames, n \in 0..MaxClauses,
          ns \in {"", PERMANENT} : upload_file(sid, f, n, ns)
    \/ \E sid \in SessionIds, f \in Filenames, n \in 1..MaxClauses :
          upload_file_ingest_raises(sid, f, n)
    \/ \E sid \in SessionIds, d \in 1..MaxUploads : delete_document(sid, d)

\* uploads that the index accepts and uploads that it refuses
SpecIngest == Init /\ [][IngestNext]_vars

\* the documents and the clauses of a session; none for an absent session
DocRecords(ss, sid) ==
    IF sid \in DOMAIN ss
    THEN [documents |-> ss[sid].documents, clauses |-> ss[sid].clauses]
    ELSE [documents |-> <<>>, clauses |-> <<>>]

\* C36: an upload that fails because the vector ingest raised leaves the
\* documents and the clauses of every session as they were before it.
C36_FailedIngestLeavesNoRecords ==
    [][\A sid \in SessionIds, f \in Filenames, n \in 1..MaxClauses :
          upload_file_ingest_raises(sid, f, n) =>
             \A x \in SessionIds : DocRecords(sessions', x) = DocRecords(sessions, x)]_vars

-----------------------------------------------------------------------------
(* backend/main.py: GET /documents/{doc_id}/download *)

\* str.startswith
startswith(s, prefix) ==
    Len(s) >= Len(prefix) /\ SubSeq(s, 1, Len(prefix)) = prefix

DownloadResponse(sid, doc_id, response, filename, bytes) ==
    [fn |-> "download_document", sid |-> sid, doc_id |-> doc_id,
     response |-> response, filename |-> filename, bytes |-> bytes]

\* GET /documents/{doc_id}/download: 404 when the session has no such
\* document or the directory no file of that prefix; else the first file of
\* os.listdir(STORAGE_DIR) whose name starts with "<doc_id>_". listdir gives
\* the names in arbitrary order: f is any file of that prefix.
download_document(sid, doc_id, f) ==
    LET s1 == get_session(sessions, sid, now)
        files == {x \in DOMAIN storage : startswith(x, ToString(doc_id) \o "_")}
    IN /\ sessions' = s1
       /\ IF doc_id \notin DOMAIN s1[sid].documents
          THEN /\ f = ""
               /\ call' = DownloadResponse(sid, doc_id, "Document not found", "", <<>>)
          ELSE IF files = {}
          THEN /\ f = ""
               /\ call' = DownloadResponse(sid, doc_id, "File not found in storage",
                                           "", <<>>)
          ELSE /\ f \in files
               /\ call' = DownloadResponse(sid, doc_id, "file",
                              s1[sid].documents[doc_id].filename, storage[f])
       /\ UNCHANGED <<use_pinecone, vector_store, now, asmt, served, history, chat, threads, storage>>

\* the files uploaded: two names, so that two files can share an id prefix
DownloadNames == {"spec.pdf", "plan.docx"}

DownloadNext ==
    \/ \E sid \in SessionIds, f \in DownloadNames, n \in 0..MaxClauses :
          upload_file(sid, f, n, "")
    \/ \E sid \in SessionIds, ok \in BOOLEAN : reset_data(sid, ok)
    \/ \E sid \in SessionIds, d \in 1..MaxUploads, f \in DOMAIN storage \cup {""} :
          download_document(sid, d, f)

\* uploads, resets and downloads of two sessions
SpecDownload == Init /\ [][DownloadNext]_vars

\* C37: a download of document d of session S answers the bytes that were
\* uploaded in session S for the document that now holds id d: never bytes
\* uploaded under another session, or for a document of S before a reset.
C37_DownloadAnswersOwnBytes ==
    (call.fn = "download_document" /\ call.response = "file") =>
        call.bytes = Bytes(call.sid, call.filename)

-----------------------------------------------------------------------------
(* backend/main.py: two /assess requests served at the same time. Each call *)
(* of the handler runs `semaphore = asyncio.Semaphore(10)`: the semaphore   *)
(* is a local of the request.                                               *)

GateClauses == 6     \* customer clauses of each of the two requests

Requests == {"r1", "r2"}

GateLabels == [i \in 1..GateClauses |-> "C." \o ToString(i)]

\* session s1 after the upload of a customer document of GateClauses clauses
\* (document 1) and of a regulation of one clause (document 2)
GateSessions ==
    parse_document_store(
        parse_document_store(<<>>, "s1", 0, "customer.pdf", GateLabels),
        "s1", 0, "regulation.pdf", RawClauses(1))

GateVectors(pinecone) ==
    ingest_documents(
        ingest_documents([is_none |-> ~pinecone, vectors |-> {}], pinecone,
                         ingest_clauses(1, "customer.pdf", GateLabels),
                         get_session_namespace("s1")),
        pinecone, ingest_clauses(2, "regulation.pdf", RawClauses(1)),
        get_session_namespace("s1"))

InitGate ==
    /\ use_pinecone \in BOOLEAN
    /\ vector_store = GateVectors(use_pinecone)
    /\ sessions = GateSessions
    /\ now = 0
    /\ asmt = Idle
    /\ served = [uploads |-> MaxUploads, assessments |-> 0]
    /\ history = <<>>
    /\ chat = NoChat
    /\ storage = PairFiles
    /\ call = NoCall
    /\ threads = [r \in Requests |-> Idle]

\* the handler of request r up to gather: the customer document has clauses
gate_assess(r, sid, customer_doc_id, regulation_doc_id, use_kb) ==
    LET s1 == get_session(sessions, sid, now)
        customer_clauses == SortedSeq(get_clauses_by_document(s1, sid, customer_doc_id))
        s2 == add_assessment(s1, sid, now, customer_doc_id, regulation_doc_id)
    IN /\ threads[r].status = "idle"
       /\ customer_clauses # <<>>
       /\ sessions' = s2
       /\ threads' = [threads EXCEPT ![r] =
              [Idle EXCEPT !.status = "running", !.sid = sid,
                           !.customer_doc_id = customer_doc_id,
                           !.regulation_doc_id = regulation_doc_id,
                           !.use_kb = use_kb,
                           !.id = s2[sid].assessment_counter,
                           !.tasks = [i \in DOMAIN customer_clauses |->
                                         Task(customer_clauses[i])]]]
       /\ UNCHANGED <<use_pinecone, vector_store, now, asmt, served, history, chat, call, storage>>

\* process_clause of request r from its semaphore to the judgment call, when
\* retrieval answers the hit o and the regulation clause is found
gate_start(r, i, o) ==
    LET req == threads[r]
        s1 == get_session(sessions, req.sid, now)
        reg == get_clause_by_doc_and_clause_id(s1, req.sid, req.regulation_doc_id,
                                               o.v.clause_id)
    IN /\ req.status = "running"
       /\ i \in DOMAIN req.tasks
       /\ req.tasks[i].pc = "queued"
       /\ \A j \in 1..(i - 1) : req.tasks[j].pc # "queued"
       /\ semaphore_free(req.tasks)
       /\ o \in retrieve_similar_clauses(vector_store, use_pinecone, TOP_K, req.use_kb,
                                         req.sid, req.regulation_doc_id)
       /\ o.kind = "hit"
       /\ reg # None
       /\ sessions' = s1
       /\ threads' = [threads EXCEPT ![r].tasks[i].reg_clause = reg,
                                     ![r].tasks[i].pc = "judging"]
       /\ UNCHANGED <<use_pinecone, vector_store, now, asmt, served, history, chat, call, storage>>

\* process_clause of request r after the judgment call answered
gate_finish(r, i, reply) ==
    LET req == threads[r]
        t == req.tasks[i]
        s1 == add_result(sessions, req.sid, now, req.id, t.clause, t.reg_clause,
                         analyze_compliance(reply))
    IN /\ req.status = "running"
       /\ i \in DOMAIN req.tasks
       /\ t.pc = "judging"
       /\ Counter(sessions, req.sid, "result_counter") < MaxResults
       /\ sessions' = s1
       /\ threads' = [threads EXCEPT ![r].tasks[i].pc = "done",
                                     ![r].tasks[i].result = s1[req.sid].result_counter]
       /\ UNCHANGED <<use_pinecone, vector_store, now, asmt, served, history, chat, call, storage>>

GateHits ==
    {Hit(v) : v \in vector_store.vectors}

GateNext ==
    \/ \E r \in Requests, kb \in BOOLEAN : gate_assess(r, "s1", 1, 2, kb)
    \/ \E r \in Requests, i \in 1..GateClauses, o \in GateHits : gate_start(r, i, o)
    \/ \E r \in Requests, i \in 1..GateClauses, reply \in Replies : gate_finish(r, i, reply)

\* two assessments of the same pair of documents, served concurrently
SpecGate == InitGate /\ [][GateNext]_vars

\* C38: the judgment calls in flight, counted over every assessment that is
\* running, are never more than 10.
C38_AtMostTenInFlightOverall ==
    Cardinality(Judging(threads.r1.tasks)) + Cardinality(Judging(threads.r2.tasks))
        <= SEM_LIMIT

-----------------------------------------------------------------------------
(* backend/ingestion.py: chunk_text, one turn of its loop a step *)

MaxText == 7     \* the longest short text
MaxSize == 4     \* the largest chunk_size tried on the short texts

\* text[start:end] without its last character
slice_without_last(text, start, end) ==
    SubSeq(text, start + 1, Min(end - 1, Len(text)))

\* text[start:end] for 0 <= start <= end
slice(text, start, end) == SubSeq(text, start + 1, Min(end, Len(text)))

ChunkCall(text, size, overlap) ==
    [fn |-> "chunk_text", text |-> text, chunk_size |-> size,
     chunk_overlap |-> overlap, pc |-> "called", start |-> 0, chunks |-> <<>>]

\* short texts under every chunk_size and every overlap from 0 to below it,
\* and long texts under the default parameters
ChunkTextCalls ==
    {ChunkCall(SubSeq("abcdefgh", 1, n), size, overlap) :
        n \in 0..MaxText, size \in 1..MaxSize, overlap \in 0..(MaxSize - 1)}
    \cup {ChunkCall(SubSeq(LongText, 1, n), chunk_size, chunk_overlap) :
             n \in {800, 2601, MaxChars}}

InitChunk ==
    /\ use_pinecone \in BOOLEAN
    /\ vector_store = [is_none |-> ~use_pinecone, vectors |-> {}]
    /\ sessions = <<>>
    /\ now = 0
    /\ asmt = Idle
    /\ served = [uploads |-> 0, assessments |-> 0]
    /\ history = <<>>
    /\ chat = NoChat
    /\ storage = NoFiles
    /\ threads = NoThreads
    /\ call \in {c \in ChunkTextCalls : c.chunk_overlap < c.chunk_size}

\* if not text: return []; chunks = []; start = 0
chunk_enter ==
    /\ call.fn = "chunk_text"
    /\ call.pc = "called"
    /\ call' = [call EXCEPT !.pc = IF call.text = "" THEN "returned" ELSE "loop"]
    /\ UNCHANGED <<use_pinecone, vector_store, sessions, now, asmt, served, history, chat, threads, storage>>

\* one test of `while start < len(text)`: a turn of the loop, or return chunks
chunk_loop ==
    /\ call.fn = "chunk_text"
    /\ call.pc = "loop"
    /\ IF call.start < Len(call.text)
       THEN call' = [call EXCEPT
                !.chunks = Append(@, slice(call.text, call.start,
                                           call.start + call.chunk_size)),
                !.start = @ + call.chunk_size - call.chunk_overlap]
       ELSE call' = [call EXCEPT !.pc = "returned"]
    /\ UNCHANGED <<use_pinecone, vector_store, sessions, now, asmt, served, history, chat, threads, storage>>

ChunkNext == chunk_enter \/ chunk_loop

\* a call of chunk_text runs on until it returns
SpecChunk == InitChunk /\ [][ChunkNext]_vars /\ WF_vars(ChunkNext)

\* what chunk_text has returned: nothing for the empty text; else windows of
\* 1 to chunk_size characters that start at 0, stride, 2*stride, ... and
\* cover every position of the text
ChunkResult ==
    LET text == call.text
        stride == call.chunk_size - call.chunk_overlap
        chunks == call.chunks
    IN IF text = "" THEN chunks = <<>>
       ELSE /\ Len(chunks) >= 1
            /\ \A i \in 1..Len(chunks) :
                  /\ (i - 1) * stride < Len(text)
                  /\ chunks[i] = SubSeq(text, (i - 1) * stride + 1,
                                        Min((i - 1) * stride + call.chunk_size, Len(text)))
                  /\ Len(chunks[i]) >= 1
                  /\ Len(chunks[i]) <= call.chunk_size
            /\ \A p \in 1..Len(text) : \E i \in 1..Len(chunks) :
                  /\ (i - 1) * stride + 1 <= p
                  /\ p <= (i - 1) * stride + Len(chunks[i])

\* C39: for chunk_overlap from 0 to below chunk_size, chunk_text returns for
\* every text; it returns the empty list for the empty text, and else windows
\* of 1 to chunk_size characters that start at the multiples of
\* chunk_size - chunk_overlap and cover every position, the last partial
\* window kept.
C39_ChunkTextReturnsCover ==
    /\ [](call.pc = "returned" => ChunkResult)
    /\ <>(call.pc = "returned")

\* seven characters in windows of 3 with overlap 1: the last window is the
\* one character left
C39_Witness ==
    /\ call.fn = "chunk_text"
    /\ call.pc = "returned"
    /\ call.text = "abcdefg"
    /\ call.chunks = <<"abc", "cde", "efg", "g">>

-----------------------------------------------------------------------------
(* backend/main.py: POST /assess, progress of the fan-out *)

\* process_clause after the judgment call answered, for the calls answering
\* in the order they were issued: add_result, and the semaphore is released
\* on leaving `async with`
process_clause_finish_in_order(i, reply) ==
    LET t == asmt.tasks[i]
        s1 == add_result(sessions, asmt.sid, now, asmt.id, t.clause,
                         t.reg_clause, analyze_compliance(reply))
    IN /\ asmt.status \in {"running", "aborted"}
       /\ i \in DOMAIN asmt.tasks
       /\ t.pc = "judging"
       /\ \A j \in 1..(i - 1) : asmt.tasks[j].pc # "judging"
       /\ sessions' = s1
       /\ asmt' = [asmt EXCEPT !.tasks[i].pc = "done",
                               !.tasks[i].result = s1[asmt.sid].result_counter]
       /\ UNCHANGED <<use_pinecone, vector_store, now, served, history, chat, call, threads, storage>>

\* the judgment call raises, or answers a complete verdict
LiveReplies == {[kind |-> "raise"], JsonReply(CompleteData)}

live_assess == assess_compliance("s1", 1, 2, FALSE)

live_start(i) == \E o \in Retrievals : Matched(o) /\ process_clause_start(i, o)

live_finish(i) == \E reply \in LiveReplies : process_clause_finish_in_order(i, reply)

LiveNext ==
    \/ live_assess
    \/ \E i \in 1..SemClauses : live_start(i)
    \/ \E i \in 1..SemClauses : live_finish(i)
    \/ assess_return

\* The event loop runs every task that is ready: a task whose semaphore has a
\* permit goes on, a task whose judgment call has answered goes on, and the
\* handler goes on when gather is done. That every judgment call answers is
\* the claim's premise.
SpecLive ==
    /\ InitSem
    /\ [][LiveNext]_vars
    /\ \A i \in 1..SemClauses : WF_vars(live_start(i)) /\ WF_vars(live_finish(i))
    /\ WF_vars(assess_return)

====
